---- MODULE Spec2Model ----
(***************************************************************************)
(* A model of the boflink link graph (src/src/graph), the linker driver    *)
(* (src/src/linker/configured.rs) and the output builder                   *)
(* (src/src/graph/built.rs).                                               *)
(*                                                                         *)
(* Graph nodes and edges live in arenas (sequences); a handle is an index  *)
(* into its arena and 0 stands for None.  Adjacency lists are the          *)
(* intrusive singly linked lists of src/src/graph/edge.rs.                 *)
(***************************************************************************)
EXTENDS Integers, Sequences, FiniteSets, TLC

\* ------------------------------------------------------------------------
\* Generic helpers
\* ------------------------------------------------------------------------

Max(a, b) == IF a < b THEN b ELSE a

Range(s) == {s[i] : i \in 1..Len(s)}

\* Position of the first element of s equal to x, 0 when absent.
IndexOf(s, x) ==
    IF \E i \in 1..Len(s) : s[i] = x
    THEN CHOOSE i \in 1..Len(s) : s[i] = x /\ \A j \in 1..(i-1) : s[j] # x
    ELSE 0

\* An allocation that does not round up.
next_multiple_of_none(n, a) == n

\* u32::next_multiple_of
next_multiple_of(n, a) == IF n % a = 0 THEN n ELSE n + (a - (n % a))

\* ------------------------------------------------------------------------
\* EdgeList  (src/src/graph/edge.rs)
\* An edge has two link cells, next_outgoing and next_incoming; a list is
\* threaded through one of them (nx).
\* ------------------------------------------------------------------------

EdgeList_new == [head |-> 0, tail |-> 0, size |-> 0]

\* EdgeList::push_back: returns the arena and the list after the call.
push_back(E, L, e, nx) ==
    IF L.tail # 0
    THEN [edges |-> [E EXCEPT ![L.tail][nx] = e],
          list  |-> [head |-> L.head, tail |-> e, size |-> L.size + 1]]
    ELSE [edges |-> E,
          list  |-> [head |-> e, tail |-> e, size |-> L.size + 1]]

\* EdgeList::pop_front: removed = 0 when the list is empty.
pop_front(E, L, nx) ==
    IF L.head = 0
    THEN [edges |-> E, list |-> L, removed |-> 0]
    ELSE LET size == Max(L.size - 1, 0) IN
         [edges   |-> [E EXCEPT ![L.head][nx] = 0],
          list    |-> [head |-> E[L.head][nx],
                       tail |-> IF size = 0 THEN 0 ELSE L.tail,
                       size |-> size],
          removed |-> L.head]

\* EdgeList::clear
clear(L) == [head |-> 0, tail |-> 0, size |-> 0]

\* EdgeList::is_empty
is_empty(L) == L.head = 0

\* EdgeListIter: the edges met from cur on, following nx, at most fuel of them.
RECURSIVE IterFrom(_, _, _, _)
IterFrom(E, cur, nx, fuel) ==
    IF cur = 0 \/ fuel = 0 THEN <<>>
    ELSE <<cur>> \o IterFrom(E, E[cur][nx], nx, fuel - 1)

\* Whether the walk from cur reaches the end within fuel steps.
RECURSIVE EndsWithin(_, _, _, _)
EndsWithin(E, cur, nx, fuel) ==
    IF cur = 0 THEN TRUE
    ELSE IF fuel = 0 THEN FALSE
    ELSE EndsWithin(E, E[cur][nx], nx, fuel - 1)

\* A walk over more than Len(E) edges has met one edge twice: it never ends.
IterTerminates(E, L, nx) == EndsWithin(E, L.head, nx, Len(E))

\* EdgeList::iter, cut after one lap when the list is cyclic.
iter(E, L, nx) == IterFrom(E, L.head, nx, Len(E) + 1)

\* ------------------------------------------------------------------------
\* Section names  (src/src/graph/node/section.rs, SectionName)
\* The names the model uses, in the byte order sort_by_key compares them,
\* each with its split at the first '$'.
\* ------------------------------------------------------------------------

SectionNameTable ==
    << [name |-> ".assoc",     group |-> ".assoc", ordering |-> <<>>],
       [name |-> ".bss",       group |-> ".bss",   ordering |-> <<>>],
       [name |-> ".data",      group |-> ".data",  ordering |-> <<>>],
       [name |-> ".debug$S",   group |-> ".debug", ordering |-> <<"S">>],
       [name |-> ".rdata",     group |-> ".rdata", ordering |-> <<>>],
       [name |-> ".rdata$zzz", group |-> ".rdata", ordering |-> <<"zzz">>],
       [name |-> ".root",      group |-> ".root",  ordering |-> <<>>],
       [name |-> ".text",      group |-> ".text",  ordering |-> <<>>],
       [name |-> ".text$mn",   group |-> ".text",  ordering |-> <<"mn">>],
       [name |-> ".text$zzz",  group |-> ".text",  ordering |-> <<"zzz">>],
       [name |-> "COMMON data", group |-> "COMMON data", ordering |-> <<>>] >>

NameEntry(n) ==
    SectionNameTable[CHOOSE i \in 1..Len(SectionNameTable) : SectionNameTable[i].name = n]

\* SectionName::group_name
group_name(n) == NameEntry(n).group

\* SectionName::group_ordering (a sequence of length 0 or 1 for the Option)
group_ordering(n) == NameEntry(n).ordering

\* The rank of a name in the order of str::cmp.
name_rank(n) ==
    CHOOSE i \in 1..Len(SectionNameTable) : SectionNameTable[i].name = n

\* ------------------------------------------------------------------------
\* Nodes  (src/src/graph/node)
\* ------------------------------------------------------------------------

\* SectionNodeCharacteristics: the flag bits the linker looks at and the
\* 4-bit alignment field of bits 20-23.
NoFlags ==
    [CntCode |-> FALSE, CntInitializedData |-> FALSE,
     CntUninitializedData |-> FALSE, LnkInfo |-> FALSE, LnkRemove |-> FALSE,
     LnkComdat |-> FALSE, MemExecute |-> FALSE, MemRead |-> FALSE,
     MemWrite |-> FALSE, align |-> 0]

RECURSIVE Pow2(_)
Pow2(n) == IF n = 0 THEN 1 ELSE 2 * Pow2(n - 1)

\* SectionNodeCharacteristics::alignment: 0 stands for None.
alignment(c) == IF c.align # 0 THEN Pow2(c.align - 1) ELSE 0

\* SectionNodeCharacteristics::zero_align
zero_align(c) == [c EXCEPT !.align = 0]

\* u32::ilog2 for the alignments 1..8192
ilog2(a) == CHOOSE k \in 0..13 : Pow2(k) <= a /\ a < Pow2(k + 1)

\* SectionNodeData: Initialized(bytes) or Uninitialized(size)
Initialized(bytes) == [init |-> TRUE, bytes |-> bytes, size |-> 0]
Uninitialized(size) == [init |-> FALSE, bytes |-> <<>>, size |-> size]

\* SectionNodeData::len
data_len(d) == IF d.init THEN Len(d.bytes) ELSE d.size

\* SectionNode::new; coff 0 is the root COFF.
SectionNode_new(name, characteristics, data, checksum, coff) ==
    [relocation_edges |-> EdgeList_new, definition_edges |-> EdgeList_new,
     associative_edges |-> EdgeList_new, virtual_address |-> 0,
     discarded |-> FALSE, coff |-> coff, data |-> data,
     characteristics |-> characteristics, checksum |-> checksum,
     name |-> name]

\* SectionNode::is_comdat
is_comdat(s) == s.characteristics.LnkComdat

\* SectionNode::is_debug
is_debug(s) ==
    /\ group_name(s.name) = ".debug"
    /\ group_ordering(s.name) # <<>>
    /\ group_ordering(s.name)[1] \in {"S", "T", "P", "F"}

\* SymbolNode::new; table_index -1 and output_name "" are the empty cells.
SymbolNode_new(name, storage_class, section) ==
    [definition_edges |-> EdgeList_new, import_edges |-> EdgeList_new,
     relocation_edges |-> EdgeList_new, table_index |-> -1,
     output_name |-> "", name |-> name, storage_class |-> storage_class,
     section |-> section]

\* LibraryNode::new
LibraryNode_new(name) == [import_edges |-> EdgeList_new, name |-> name]

\* Edge::new
Edge_new(source, target, weight) ==
    [next_outgoing |-> 0, next_incoming |-> 0, source |-> source,
     target |-> target, weight |-> weight]

\* ComdatSelection; 0 stands for None.
NoDuplicates == 1
AnySel == 2
SameSize == 3
ExactMatch == 4
Associative == 5
Largest == 6

\* ------------------------------------------------------------------------
\* LinkGraph  (src/src/graph/link.rs)
\* sects, syms, libs are the node arenas; defs, rels, imps, assocs the edge
\* arenas.  section_nodes, coff_nodes, external_symbols and library_nodes
\* are the insertion-ordered collections of the struct.
\* ------------------------------------------------------------------------

LinkGraph_new(machine) ==
    [machine |-> machine,
     sects |-> <<>>, syms |-> <<>>, libs |-> <<>>,
     defs |-> <<>>, rels |-> <<>>, imps |-> <<>>, assocs |-> <<>>,
     section_nodes |-> <<>>, common_section |-> 0, library_nodes |-> <<>>,
     coff_nodes |-> <<>>, api_node |-> 0, external_symbols |-> <<>>]

\* external_symbols.get(name): the symbol node of that name, 0 when absent.
external_get(g, name) ==
    LET hits == {i \in 1..Len(g.external_symbols) :
                    g.syms[g.external_symbols[i]].name = name}
    IN IF hits = {} THEN 0
       ELSE g.external_symbols[CHOOSE i \in hits : \A j \in hits : i <= j]

\* library_nodes.get(dll)
library_get(g, dll) ==
    LET hits == {i \in 1..Len(g.library_nodes) :
                    g.libs[g.library_nodes[i]].name = dll}
    IN IF hits = {} THEN 0 ELSE g.library_nodes[CHOOSE i \in hits : TRUE]

\* The views of a COFF symbol record that add_coff uses.
sym_is_global(s) == s.storage_class \in {"External", "WeakExternal"}
sym_is_common(s) ==
    s.storage_class = "External" /\ s.section_number = 0 /\ s.value # 0

\* The checksum add_coff computes for an .rdata$zzz section whose auxiliary
\* record carries none: a CRC of the section bytes.
RECURSIVE jamcrc(_, _)
jamcrc(h, data) ==
    IF data = <<>> THEN h
    ELSE jamcrc((h * 31 + Head(data) + 1) % 65521, Tail(data))

\* The COMMON section of the graph, created on first use.
common_section_new(machine) ==
    SectionNode_new("COMMON data",
        [NoFlags EXCEPT !.CntUninitializedData = TRUE, !.MemRead = TRUE,
                        !.MemWrite = TRUE,
                        !.align = IF machine = "Amd64" THEN 4 ELSE 3],
        Uninitialized(0), 0, 0)

\* Links a definition edge into its symbol's and its section's lists.
link_definition(g, edge) ==
    LET e  == Len(g.defs) + 1
        r1 == push_back(Append(g.defs, edge),
                        g.syms[edge.source].definition_edges, e, "next_outgoing")
        r2 == push_back(r1.edges,
                        g.sects[edge.target].definition_edges, e, "next_incoming")
    IN [g EXCEPT !.defs = r2.edges,
                 !.syms[edge.source].definition_edges = r1.list,
                 !.sects[edge.target].definition_edges = r2.list]

\* Links a relocation edge into its section's and its symbol's lists.
link_relocation(g, edge) ==
    LET e  == Len(g.rels) + 1
        r1 == push_back(Append(g.rels, edge),
                        g.sects[edge.source].relocation_edges, e, "next_outgoing")
        r2 == push_back(r1.edges,
                        g.syms[edge.target].relocation_edges, e, "next_incoming")
    IN [g EXCEPT !.rels = r2.edges,
                 !.sects[edge.source].relocation_edges = r1.list,
                 !.syms[edge.target].relocation_edges = r2.list]

\* add_coff, the section loop: one node per section of the COFF.
RECURSIVE add_sections(_, _, _, _)
add_sections(g, coff, coff_node, i) ==
    IF i > Len(coff.sections) THEN g
    ELSE LET s    == coff.sections[i]
             data == IF s.characteristics.CntUninitializedData
                     THEN Uninitialized(s.size_of_raw_data)
                     ELSE Initialized(s.data)
             node == SectionNode_new(s.name, s.characteristics, data, 0, coff_node)
         IN add_sections([g EXCEPT !.sects = Append(@, node),
                                   !.section_nodes = Append(@, Len(g.sects) + 1)],
                         coff, coff_node, i + 1)

\* Links an associative edge from the root section to the section that
\* depends on it.
link_associative(g, root, section) ==
    LET a == Len(g.assocs) + 1
        r == push_back(Append(g.assocs, Edge_new(root, section, <<>>)),
                       g.sects[root].associative_edges, a, "next_outgoing")
    IN [g EXCEPT !.assocs = r.edges,
                 !.sects[root].associative_edges = r.list]

\* add_coff, the symbol loop: the node of the symbol, which is the external
\* symbol of that name when the graph has one and a new node otherwise.
\* The result is the graph with the node and the node, [g, id].
symbol_entry(g, sym) ==
    IF sym_is_global(sym) /\ external_get(g, sym.name) # 0
    THEN [g |-> g, id |-> external_get(g, sym.name)]
    ELSE [g |-> [g EXCEPT
                   !.syms = Append(@, SymbolNode_new(sym.name,
                               sym.storage_class, sym.has_aux_section)),
                   !.external_symbols =
                       IF sym_is_global(sym) THEN Append(@, Len(g.syms) + 1)
                       ELSE @],
          id |-> Len(g.syms) + 1]

\* The graph with its COMMON section, created on first use.
common_section_entry(g) ==
    IF g.common_section # 0 THEN g
    ELSE [g EXCEPT !.sects = Append(@, common_section_new(g.machine)),
                   !.common_section = Len(g.sects) + 1]

\* The checksum of a section definition: computed for an .rdata$zzz section
\* that comes without one.
section_checksum(section, sym) ==
    IF section.name = ".rdata$zzz" /\ sym.check_sum = 0 /\ section.data.init
    THEN jamcrc(0, section.data.bytes)
    ELSE sym.check_sum

\* add_coff, the symbol loop after the node n = [g, id] of the symbol is
\* known: the edges of the symbol.
add_symbol_edges(st, sym, n) ==
    IF sym.section_number <= 0
    THEN [st EXCEPT
            !.g = IF sym_is_common(sym)
                  THEN link_definition(common_section_entry(n.g),
                          Edge_new(n.id, common_section_entry(n.g).common_section,
                                   [address |-> sym.value, selection |-> 0]))
                  ELSE n.g,
            !.symbols = Append(@, n.id)]
    ELSE
     LET section_idx   == sym.section_number
         graph_section == st.base + section_idx
         comdat        == is_comdat(n.g.sects[graph_section])
     IN IF sym.has_aux_section
        THEN [g |-> link_definition(
                      [(IF comdat /\ sym.selection = Associative
                        THEN link_associative(n.g, st.base + sym.number,
                                              graph_section)
                        ELSE n.g)
                       EXCEPT !.sects[graph_section].checksum =
                                 section_checksum(n.g.sects[graph_section], sym)],
                      Edge_new(n.id, graph_section,
                               [address |-> sym.value, selection |-> 0])),
              base |-> st.base,
              symbols |-> Append(st.symbols, n.id),
              selections |-> IF comdat
                             THEN [st.selections EXCEPT ![section_idx] = sym.selection]
                             ELSE st.selections]
        ELSE [st EXCEPT
                !.g = link_definition(n.g,
                         Edge_new(n.id, graph_section,
                                  [address |-> sym.value,
                                   selection |-> IF comdat
                                                 THEN st.selections[section_idx]
                                                 ELSE 0])),
                !.symbols = Append(@, n.id)]

\* add_coff, one turn of the symbol loop.  st carries the graph and the
\* per-COFF cache (LinkGraphCache): base + k is the node of section k,
\* symbols[k] the node of symbol k, selections[k] the COMDAT selection of
\* section k.
add_symbol(st, coff, i) ==
    add_symbol_edges(st, coff.symbols[i], symbol_entry(st.g, coff.symbols[i]))

RECURSIVE add_symbols(_, _, _)
add_symbols(st, coff, i) ==
    IF i > Len(coff.symbols) THEN st
    ELSE add_symbols(add_symbol(st, coff, i), coff, i + 1)

\* add_coff, the relocation loop over section k from its relocation r on.
RECURSIVE add_relocations(_, _, _, _)
add_relocations(st, coff, k, r) ==
    IF k > Len(coff.sections) THEN st.g
    ELSE IF r > Len(coff.sections[k].relocations)
    THEN add_relocations(st, coff, k + 1, 1)
    ELSE LET reloc == coff.sections[k].relocations[r]
         IN add_relocations(
              [st EXCEPT !.g = link_relocation(st.g,
                    Edge_new(st.base + k, st.symbols[reloc.symbol],
                             [virtual_address |-> reloc.virtual_address,
                              typ |-> reloc.typ]))],
              coff, k, r + 1)

\* An add_coff that does not look the COFF node up before it adds it.
add_coff_again(g, file_path, member_path, coff) ==
    IF g.machine # coff.architecture
    THEN [g |-> g, result |-> "ArchitectureMismatch"]
    ELSE LET coff_node == Len(g.coff_nodes) + 1
             base == Len(g.sects)
         IN [g |-> add_relocations(
                     add_symbols(
                       [g |-> add_sections(
                                [g EXCEPT !.coff_nodes =
                                    Append(@, <<file_path, member_path>>)],
                                coff, coff_node, 1),
                        base |-> base, symbols |-> <<>>,
                        selections |-> [k \in 1..Len(coff.sections) |-> 0]],
                       coff, 1),
                     coff, 1, 1),
             result |-> "Ok"]

\* LinkGraph::add_coff.  The result is Ok or ArchitectureMismatch; the COFFs
\* the model feeds it are otherwise well formed.
add_coff(g, file_path, member_path, coff) ==
    IF g.machine # coff.architecture
    THEN [g |-> g, result |-> "ArchitectureMismatch"]
    ELSE IF \E i \in 1..Len(g.coff_nodes) : g.coff_nodes[i] = <<file_path, member_path>>
    THEN [g |-> g, result |-> "Ok"]
    ELSE LET coff_node == Len(g.coff_nodes) + 1
             base == Len(g.sects)
         IN [g |-> add_relocations(
                     add_symbols(
                       [g |-> add_sections(
                                [g EXCEPT !.coff_nodes =
                                    Append(@, <<file_path, member_path>>)],
                                coff, coff_node, 1),
                        base |-> base, symbols |-> <<>>,
                        selections |-> [k \in 1..Len(coff.sections) |-> 0]],
                       coff, 1),
                     coff, 1, 1),
             result |-> "Ok"]

\* LinkGraph::add_external_symbol
add_external_symbol(g, name) ==
    IF external_get(g, name) # 0 THEN g
    ELSE [g EXCEPT !.syms = Append(@, SymbolNode_new(name, "External", FALSE)),
                   !.external_symbols = Append(@, Len(g.syms) + 1)]

\* SymbolNode::is_undefined
is_undefined(g, s) ==
    is_empty(g.syms[s].import_edges) /\ is_empty(g.syms[s].definition_edges)

\* LinkGraph::undefined_symbols: names in external_symbols order.
RECURSIVE SelectSeq2(_, _, _)
SelectSeq2(s, g, i) ==
    IF i > Len(s) THEN <<>>
    ELSE (IF is_undefined(g, s[i]) THEN <<g.syms[s[i]].name>> ELSE <<>>)
         \o SelectSeq2(s, g, i + 1)

graph_undefined_symbols(g) == SelectSeq2(g.external_symbols, g, 1)

\* LinkGraph::add_import_edge
add_import_edge(g, symbol, library, import) ==
    LET symbol_node == external_get(g, symbol) IN
    IF import.architecture # g.machine
    THEN [g |-> g, result |-> "ArchitectureMismatch"]
    ELSE LET import_name == IF import.import.ordinal THEN import.symbol
                            ELSE import.import.name
             e  == Len(g.imps) + 1
             r1 == push_back(Append(g.imps,
                                Edge_new(symbol_node, library,
                                         [import_name |-> import_name])),
                             g.syms[symbol_node].import_edges, e, "next_outgoing")
             r2 == push_back(r1.edges, g.libs[library].import_edges, e,
                             "next_incoming")
         IN [g |-> [g EXCEPT !.imps = r2.edges,
                             !.syms[symbol_node].import_edges = r1.list,
                             !.libs[library].import_edges = r2.list],
             result |-> "Ok"]

\* LinkGraph::add_api_import
add_api_import(g, symbol, import) ==
    LET g1 == IF g.api_node # 0 THEN g
              ELSE [g EXCEPT !.libs = Append(@, LibraryNode_new(import.dll)),
                             !.api_node = Len(g.libs) + 1]
    IN add_import_edge(g1, symbol, g1.api_node, import)

\* LinkGraph::add_library_import
add_library_import(g, symbol, import) ==
    LET g1 == IF library_get(g, import.dll) # 0 THEN g
              ELSE [g EXCEPT !.libs = Append(@, LibraryNode_new(import.dll)),
                             !.library_nodes = Append(@, Len(g.libs) + 1)]
    IN add_import_edge(g1, symbol, library_get(g1, import.dll), import)

\* ------------------------------------------------------------------------
\* SymbolNode queries  (src/src/graph/node/symbol.rs)
\* ------------------------------------------------------------------------

\* symbol.definitions().iter()
definitions(g, s) == iter(g.defs, g.syms[s].definition_edges, "next_outgoing")

\* symbol.imports().iter()
imports(g, s) == iter(g.imps, g.syms[s].import_edges, "next_outgoing")

\* symbol.references().iter()
references(g, s) == iter(g.rels, g.syms[s].relocation_edges, "next_incoming")

\* SymbolNode::is_duplicate
is_duplicate(g, s) ==
    LET ds == definitions(g, s)
    IN Cardinality({i \in 1..Len(ds) : g.defs[ds[i]].weight.selection = 0}) > 1

\* SymbolNode::is_multiply_defined
is_multiply_defined(g, s) ==
    LET ds == definitions(g, s)
        with(sel) == {i \in 1..Len(ds) : g.defs[ds[i]].weight.selection = sel}
        noduplicates == with(NoDuplicates) # {}
        samesize == with(SameSize) # {}
        exact_match == with(ExactMatch) # {}
        sizes == {data_len(g.sects[g.defs[ds[i]].target].data) : i \in with(SameSize)}
        checksums == {g.sects[g.defs[ds[i]].target].checksum : i \in with(ExactMatch)}
    IN \/ noduplicates /\ g.syms[s].definition_edges.size > 1
       \/ samesize /\ Cardinality(sizes) > 1
       \/ exact_match /\ Cardinality(checksums) > 1

\* SymbolNode::is_unreferenced
is_unreferenced(g, s) ==
    LET rs == references(g, s)
    IN \/ is_empty(g.syms[s].relocation_edges)
       \/ \A i \in 1..Len(rs) : g.sects[g.rels[rs[i]].source].discarded

\* SymbolNode::is_label (the storage class; the model has no $SG names)
is_label(g, s) == g.syms[s].storage_class = "Label"

\* SymbolNode::is_section_symbol
is_section_symbol(g, s) == g.syms[s].section

\* LinkGraph::finish, the error loop: one turn per external symbol.
RECURSIVE symbol_errors(_, _)
symbol_errors(g, i) ==
    IF i > Len(g.external_symbols) THEN <<>>
    ELSE LET symbol == g.external_symbols[i]
             here == IF is_undefined(g, symbol)
                     THEN << [kind |-> "Undefined", symbol |-> symbol] >>
                     ELSE IF is_duplicate(g, symbol)
                     THEN << [kind |-> "Duplicate", symbol |-> symbol] >>
                     ELSE IF is_multiply_defined(g, symbol)
                     THEN << [kind |-> "MultiplyDefined", symbol |-> symbol] >>
                     ELSE <<>>
         IN here \o symbol_errors(g, i + 1)

\* A finish that stops at the first offending symbol.
finish_first(g) ==
    IF symbol_errors(g, 1) = <<>> THEN <<>> ELSE << Head(symbol_errors(g, 1)) >>

\* LinkGraph::finish: the Err value, empty when the result is Ok.
finish(g) == symbol_errors(g, 1)

\* ------------------------------------------------------------------------
\* Archives  (src/src/linkobject/archive/mod.rs)
\* An archive is [symbols, members]: symbols is the symbol map, a sequence
\* of [name, offset] in file order, offset being the index of a member;
\* a member is [path, kind, coff, import] with kind Coff, Import or Error
\* (a member that does not parse).
\* ------------------------------------------------------------------------

\* LinkArchive::parse: the symbol cache of a freshly opened archive.
CachedSymbolMap_new == [cache |-> <<>>, pos |-> 1]

\* cache.get(symbol): the cache is a sequence of [name, offset] with one
\* entry per name; 0 when the name is absent.
cache_get(cache, symbol) ==
    IF \E i \in 1..Len(cache) : cache[i].name = symbol
    THEN cache[CHOOSE i \in 1..Len(cache) : cache[i].name = symbol].offset
    ELSE 0

\* cache.insert(name, offset): replaces the value of a name already there.
cache_insert(cache, name, offset) ==
    IF \E i \in 1..Len(cache) : cache[i].name = name
    THEN [i \in 1..Len(cache) |->
            IF cache[i].name = name THEN [name |-> name, offset |-> offset]
            ELSE cache[i]]
    ELSE Append(cache, [name |-> name, offset |-> offset])

\* CachedSymbolMap::find_symbol, the loop that resumes the iterator.
RECURSIVE find_symbol_scan(_, _, _)
find_symbol_scan(map, symbols, symbol) ==
    IF map.pos > Len(symbols) THEN [map |-> map, found |-> 0]
    ELSE LET entry == symbols[map.pos]
             next  == [cache |-> cache_insert(map.cache, entry.name, entry.offset),
                       pos |-> map.pos + 1]
         IN IF entry.name = symbol THEN [map |-> next, found |-> entry.offset]
            ELSE find_symbol_scan(next, symbols, symbol)

\* CachedSymbolMap::find_symbol: found = 0 stands for None.
find_symbol(map, symbols, symbol) ==
    IF cache_get(map.cache, symbol) # 0
    THEN [map |-> map, found |-> cache_get(map.cache, symbol)]
    ELSE find_symbol_scan(map, symbols, symbol)

\* LinkArchive::extract_symbol: the cache after the call and the outcome,
\* NotFound, MemberParse or the extracted member.
extract_symbol(archive, map, symbol) ==
    LET r == find_symbol(map, archive.symbols, symbol) IN
    IF r.found = 0 THEN [map |-> r.map, result |-> "NotFound", member |-> 0]
    ELSE IF archive.members[r.found].kind = "Error"
    THEN [map |-> r.map, result |-> "MemberParse", member |-> r.found]
    ELSE [map |-> r.map, result |-> "Ok", member |-> r.found]

\* str::strip_prefix: <<rest>> for Some(rest), <<>> for None.
strip_prefix(s, prefix) ==
    IF Len(s) >= Len(prefix) /\ SubSeq(s, 1, Len(prefix)) = prefix
    THEN <<SubSeq(s, Len(prefix) + 1, Len(s))>>
    ELSE <<>>

\* str::trim_start_matches: the prefix is removed as often as it is there.
RECURSIVE trim_start_matches(_, _)
trim_start_matches(s, prefix) ==
    IF strip_prefix(s, prefix) = <<>> THEN s
    ELSE trim_start_matches(strip_prefix(s, prefix)[1], prefix)

\* str::trim_end_matches: the suffix is removed as often as it is there.
RECURSIVE trim_end_matches(_, _)
trim_end_matches(s, suffix) ==
    IF Len(s) >= Len(suffix)
       /\ SubSeq(s, Len(s) - Len(suffix) + 1, Len(s)) = suffix
    THEN trim_end_matches(SubSeq(s, 1, Len(s) - Len(suffix)), suffix)
    ELSE s

\* ------------------------------------------------------------------------
\* Symbol and library names
\* ------------------------------------------------------------------------

\* SymbolName::strip_dllimport
strip_dllimport(name) == strip_prefix(name, "__imp_")

\* str::rsplit_once('.'): <<prefix, suffix>> around the last dot, <<>> when
\* the string has none.
rsplit_once_dot(s) ==
    LET dots == {i \in 1..Len(s) : SubSeq(s, i, i) = "."} IN
    IF dots = {} THEN <<>>
    ELSE LET last_dot == CHOOSE i \in dots : \A j \in dots : j <= i
         IN <<SubSeq(s, 1, last_dot - 1), SubSeq(s, last_dot + 1, Len(s))>>

\* str::eq_ignore_ascii_case(suffix, "dll")
is_dll_suffix(suffix) ==
    /\ Len(suffix) = 3
    /\ SubSeq(suffix, 1, 1) \in {"d", "D"}
    /\ SubSeq(suffix, 2, 2) \in {"l", "L"}
    /\ SubSeq(suffix, 3, 3) \in {"l", "L"}

\* LibraryName::trim_dll_suffix
trim_dll_suffix(name) ==
    IF rsplit_once_dot(name) # <<>> /\ is_dll_suffix(rsplit_once_dot(name)[2])
    THEN rsplit_once_dot(name)[1]
    ELSE name

\* An API source that is never asked: every symbol goes to the archives.
extract_api_symbol_skipped(api, symbol) == [found |-> FALSE, import |-> <<>>]

\* BeaconApiSymbols::extract_api_symbol with the roster of the world;
\* found = FALSE is ApiSymbolError::NotFound.
extract_api_symbol(api, symbol) ==
    LET unprefixed_symbol == IF api.architecture = "I386"
                             THEN trim_start_matches(symbol, "__imp__")
                             ELSE trim_start_matches(symbol, "__imp_") IN
    IF unprefixed_symbol \in api.symbols
    THEN [found |-> TRUE,
          import |-> [architecture |-> api.architecture,
                      symbol |-> unprefixed_symbol, dll |-> "Beacon API",
                      import |-> [ordinal |-> FALSE, name |-> unprefixed_symbol]]]
    ELSE [found |-> FALSE, import |-> <<>>]

\* ------------------------------------------------------------------------
\* Directive parsing  (src/src/drectve/parsers.rs, src/src/drectve/mod.rs)
\* A parse result is [ok, parsed, remaining]; ok = FALSE is the ParseError.
\* ------------------------------------------------------------------------

ParseOk(parsed, remaining) ==
    [ok |-> TRUE, parsed |-> parsed, remaining |-> remaining]

ParseError(data) == [ok |-> FALSE, parsed |-> "", remaining |-> data]

\* parsers::token
token(tok, data) ==
    IF Len(data) >= Len(tok) /\ SubSeq(data, 1, Len(tok)) = tok
    THEN ParseOk(tok, SubSeq(data, Len(tok) + 1, Len(data)))
    ELSE ParseError(data)

\* parsers::not_token
not_token(tok, data) ==
    IF Len(data) >= Len(tok) /\ SubSeq(data, 1, Len(tok)) # tok
    THEN ParseOk(SubSeq(data, 1, Len(tok)), SubSeq(data, Len(tok) + 1, Len(data)))
    ELSE ParseError(data)

\* The parser handed to many0 and many1: not_token(tok) when negated,
\* token(tok) otherwise.
one_token(negated, tok, data) ==
    IF negated THEN not_token(tok, data) ELSE token(tok, data)

\* The number of turns of the while loop of many0 and many1: the parser
\* succeeds on the data after each of the first k matches and fails after
\* the last one.
repetitions(negated, tok, data) ==
    CHOOSE k \in 0..(Len(data) \div Len(tok)) :
       /\ \A j \in 0..(k - 1) :
             one_token(negated, tok,
                       SubSeq(data, j * Len(tok) + 1, Len(data))).ok
       /\ ~one_token(negated, tok,
                     SubSeq(data, k * Len(tok) + 1, Len(data))).ok

\* (&data[..offset], &data[offset..])
split_at(data, offset) ==
    ParseOk(SubSeq(data, 1, offset), SubSeq(data, offset + 1, Len(data)))

\* parsers::many0
many0(negated, tok, data) ==
    split_at(data, Len(tok) * repetitions(negated, tok, data))

\* parsers::many1
many1(negated, tok, data) ==
    IF ~one_token(negated, tok, data).ok THEN ParseError(data)
    ELSE many0(negated, tok, data)

\* Or::parse, for the results of its two parsers on the same data.
or_else(first, second) == IF first.ok THEN first ELSE second

\* TerminatedBy::parse with a token as terminator, for the result p of the
\* inner parser on the data.
terminated_by(p, tok, data) ==
    IF p.ok /\ token(tok, p.remaining).ok
    THEN ParseOk(p.parsed, token(tok, p.remaining).remaining)
    ELSE ParseError(data)

\* many1(not_token("\"")).surrounded_by(token("\""))
quoted_value(data) ==
    IF token("\"", data).ok
    THEN terminated_by(many1(TRUE, "\"", token("\"", data).remaining), "\"", data)
    ELSE ParseError(data)

\* The value parser of lines 26-31: the quoted string or else the run of
\* characters that are not spaces, and then one space.
directive_value(data) ==
    terminated_by(or_else(quoted_value(data), many1(TRUE, " ", data)), " ", data)

\* many1(not_token(":")).terminated_by(token(":")) behind the result
\* intro of the parser of "-" or "/".
flag_name(intro, data) ==
    IF intro.ok
    THEN terminated_by(many1(TRUE, ":", intro.remaining), ":", data)
    ELSE ParseError(data)

\* token("-").or(token("/"))
introducer(data) == or_else(token("-", data), token("/", data))

\* The flag parser of lines 22-25: spaces, "-" or "/", and the characters
\* up to the first ":".
directive_flag(data) ==
    flag_name(introducer(many0(FALSE, " ", data).remaining), data)

\* Then::parse, for the result of the flag parser and the result of the
\* value parser on what the flag parser left.
directive_pair(flag, value) ==
    [ok |-> flag.ok /\ value.ok, flag |-> flag.parsed, value |-> value.parsed,
     remaining |-> value.remaining]

directive_then(flag) == directive_pair(flag, directive_value(flag.remaining))

\* The parser of lines 21-32: [ok, flag, value, remaining].
directive(data) == directive_then(directive_flag(data))

AsciiUpper == "ABCDEFGHIJKLMNOPQRSTUVWXYZ"
AsciiLower == "abcdefghijklmnopqrstuvwxyz"

\* u8::to_ascii_lowercase on a string of one character
to_ascii_lowercase(c) ==
    IF \E i \in 1..Len(AsciiUpper) : SubSeq(AsciiUpper, i, i) = c
    THEN LET i == CHOOSE i \in 1..Len(AsciiUpper) : SubSeq(AsciiUpper, i, i) = c
         IN SubSeq(AsciiLower, i, i)
    ELSE c

\* str::eq_ignore_ascii_case
eq_ignore_ascii_case(a, b) ==
    /\ Len(a) = Len(b)
    /\ \A i \in 1..Len(a) :
          to_ascii_lowercase(SubSeq(a, i, i)) = to_ascii_lowercase(SubSeq(b, i, i))

\* DrectveLibraries::next: [some, value, section_data], the item and the
\* data left for the next call.  DrectveLibraries_step is the body of the
\* loop for the parse d of one directive.
RECURSIVE DrectveLibraries_next(_)
DrectveLibraries_step(d, section_data) ==
    IF ~d.ok
    THEN [some |-> FALSE, value |-> "", section_data |-> section_data]
    ELSE IF eq_ignore_ascii_case(d.flag, "DEFAULTLIB")
    THEN [some |-> TRUE, value |-> d.value, section_data |-> d.remaining]
    ELSE DrectveLibraries_next(d.remaining)

DrectveLibraries_next(section_data) ==
    DrectveLibraries_step(directive(section_data), section_data)

\* The items of the iterator, in order.
RECURSIVE DrectveLibraries_items(_)
items_from(item) ==
    IF ~item.some THEN <<>>
    ELSE <<item.value>> \o DrectveLibraries_items(item.section_data)

DrectveLibraries_items(section_data) ==
    items_from(DrectveLibraries_next(section_data))

\* parse_drectve_libraries(coff).into_iter().flatten(): the libraries of
\* the .drectve section of a COFF; drectve = "" is a COFF without one.
parse_drectve_libraries(coff) == DrectveLibraries_items(coff.drectve)

\* LibrarySearcher::find_library over the files of the search path: "" when
\* no file answers to the name.
find_library(files, name) ==
    IF name \in DOMAIN files THEN files[name] ELSE ""

\* ------------------------------------------------------------------------
\* The linker driver  (src/src/linker/configured.rs, ConfiguredLinker::link)
\* ------------------------------------------------------------------------

VARIABLES
    world,                 \* the inputs of this link: files, archives, API
    pc,                    \* position of the driver in link()
    graph,                 \* the LinkGraph, later the BuiltLinkGraph nodes
    archives,              \* symbol_cache of each opened archive
    link_libraries,        \* paths of the opened archives, insertion order
    library_names,         \* names of the opened libraries
    drectve_queue,         \* .drectve libraries waiting to be opened
    symbol_search_buffer,  \* undefined names of the current pass
    undefined_symbols,     \* names no source provides
    setup_errors,          \* LinkerSetupError values collected so far
    last,                  \* what the last turn of the symbol loop did
    sections,              \* BuiltLinkGraph::sections
    output,                \* the output COFF under construction
    result                 \* the value link() returns

vars == <<world, pc, graph, archives, link_libraries, library_names,
          drectve_queue, symbol_search_buffer, undefined_symbols,
          setup_errors, last, sections, output, result>>

driver_vars == <<archives, link_libraries, library_names, drectve_queue,
                 symbol_search_buffer, undefined_symbols, setup_errors, last>>

\* IndexSet::insert: the set after the call.
set_insert(s, x) == IF x \in Range(s) THEN s ELSE Append(s, x)

\* The .drectve libraries of one command line COFF, queued when their
\* trimmed name is new (lines 124-132).  st = [names, queue].
RECURSIVE queue_input_libraries(_, _)
queue_input_libraries(st, libraries) ==
    IF libraries = <<>> THEN st
    ELSE LET library_name == trim_end_matches(Head(libraries), ".lib") IN
         queue_input_libraries(
            IF library_name \in Range(st.names) THEN st
            ELSE [names |-> Append(st.names, library_name),
                  queue |-> Append(st.queue, library_name)],
            Tail(libraries))

\* The same over the command line COFFs, in their order.
RECURSIVE queue_input_drectve(_, _, _)
queue_input_drectve(st, inputs, i) ==
    IF i > Len(inputs) THEN st
    ELSE queue_input_drectve(
            queue_input_libraries(st, parse_drectve_libraries(inputs[i].coff)),
            inputs, i + 1)

\* Opening the libraries of a list of names (lines 149-209).
\* st = [libs, errors].
RECURSIVE open_libraries(_, _, _, _)
open_libraries(st, files, names, i) ==
    IF i > Len(names) THEN st
    ELSE LET found == find_library(files, names[i]) IN
         open_libraries(
            IF found = ""
            THEN [st EXCEPT !.errors = Append(@, [kind |-> "Path",
                                                   path |-> names[i]])]
            ELSE IF found \in Range(st.libs) THEN st
            ELSE [st EXCEPT !.libs = Append(@, found)],
            files, names, i + 1)

\* Adding the command line COFFs to the graph (lines 259-266).
\* st = [g, errors].
RECURSIVE add_inputs(_, _, _)
add_inputs(st, inputs, i) ==
    IF i > Len(inputs) THEN st
    ELSE LET r == add_coff(st.g, inputs[i].path, "", inputs[i].coff) IN
         add_inputs(
            IF r.result = "Ok" THEN [st EXCEPT !.g = r.g]
            ELSE [g |-> r.g,
                  errors |-> Append(st.errors, [kind |-> "Path",
                                                path |-> inputs[i].path])],
            inputs, i + 1)

\* The "_" prefix of the entry point on the 32-bit target.
entrypoint_name(arch, name) ==
    IF arch = "I386" THEN "_" \o name ELSE name

\* link(), from its start to the resolution loop (lines 79-286).
Setup ==
    /\ pc = "setup"
    /\ \E q \in { queue_input_drectve(
                    [names |-> world.library_names, queue |-> <<>>],
                    world.inputs, 1) } :
       \E o1 \in { open_libraries([libs |-> <<>>, errors |-> <<>>],
                                  world.files, world.library_names, 1) } :
       \E o2 \in { open_libraries(o1, world.files, q.queue, 1) } :
       \E a \in { add_inputs([g |-> LinkGraph_new(world.target_arch),
                               errors |-> <<>>], world.inputs, 1) } :
          /\ library_names' = q.names
          /\ link_libraries' = o2.libs
          /\ archives' = [p \in DOMAIN archives |->
                            IF p \in Range(o2.libs) THEN CachedSymbolMap_new
                            ELSE archives[p]]
          /\ IF o2.errors # <<>>
             THEN /\ setup_errors' = o2.errors
                  /\ result' = [kind |-> "Setup", errors |-> o2.errors]
                  /\ pc' = "done"
                  /\ graph' = graph
             ELSE IF world.inputs = <<>>
             THEN /\ setup_errors' = <<>>
                  /\ result' = [kind |-> "NoInput", errors |-> <<>>]
                  /\ pc' = "done"
                  /\ graph' = graph
             ELSE IF a.errors # <<>>
             THEN /\ setup_errors' = a.errors
                  /\ result' = [kind |-> "Setup", errors |-> a.errors]
                  /\ pc' = "done"
                  /\ graph' = a.g
             ELSE /\ setup_errors' = <<>>
                  /\ result' = result
                  /\ pc' = "resolve"
                  /\ graph' = IF world.entrypoint = <<>> THEN a.g
                              ELSE add_external_symbol(a.g,
                                      entrypoint_name(world.target_arch,
                                                      world.entrypoint[1]))
    /\ UNCHANGED <<world, drectve_queue, symbol_search_buffer,
                   undefined_symbols, last, sections, output>>

\* The head of the resolution loop (lines 289-300).
RECURSIVE not_tried(_, _)
not_tried(names, tried) ==
    IF names = <<>> THEN <<>>
    ELSE (IF Head(names) \in Range(tried) THEN <<>> ELSE <<Head(names)>>)
         \o not_tried(Tail(names), tried)

Snapshot ==
    /\ pc = "resolve"
    /\ LET buffer == symbol_search_buffer
                        \o not_tried(graph_undefined_symbols(graph), undefined_symbols)
       IN /\ symbol_search_buffer' = buffer
          /\ pc' = IF buffer = <<>> THEN "finish" ELSE "symbol"
    /\ UNCHANGED <<world, graph, archives, link_libraries, library_names,
                   drectve_queue, undefined_symbols, setup_errors, last,
                   sections, output, result>>

\* Opening the pending .drectve libraries (lines 325-357).
\* st = [names, libs, archives, errors].
RECURSIVE drain_drectve(_, _, _)
drain_drectve(st, files, queue) ==
    IF queue = <<>> THEN st
    ELSE LET drectve_library == Head(queue).library
             found == find_library(files, drectve_library)
         IN drain_drectve(
              IF found = ""
              THEN [st EXCEPT !.errors = Append(@, [kind |-> "Path",
                                                     path |-> Head(queue).library_path])]
              ELSE IF drectve_library \in Range(st.names) THEN st
              ELSE [st EXCEPT !.names = Append(@, drectve_library),
                              !.libs = set_insert(@, found),
                              !.archives[found] = CachedSymbolMap_new],
              files, Tail(queue))

\* Queueing the .drectve libraries of an extracted COFF (lines 385-395).
RECURSIVE queue_member_drectve(_, _, _, _, _)
queue_member_drectve(queue, names, library_path, coff_path, libraries) ==
    IF libraries = <<>> THEN queue
    ELSE LET drectve_library == Head(libraries) IN
         queue_member_drectve(
            IF drectve_library \in Range(names)
            THEN Append(queue, [library_path |-> library_path,
                                coff_path |-> coff_path,
                                library |-> trim_end_matches(drectve_library, ".lib")])
            ELSE queue,
            names, library_path, coff_path, Tail(libraries))

\* The scan of the opened libraries for one symbol (lines 360-427), from
\* library k on.  st = [g, archives, queue, errors, probes, resolved].
\* scan_library is one turn, for the answer x of library k's symbol map.
RECURSIVE scan_libraries(_, _, _, _, _)
RECURSIVE scan_library(_, _, _, _, _, _)
scan_library(st, libs, names, symbol_name, k, x) ==
    LET library_path == libs[k]
        member == world.archives[library_path].members[x.member]
        s1 == [st EXCEPT !.archives[library_path] = x.map]
        probe(outcome) == [library |-> library_path, outcome |-> outcome]
        error == [kind |-> "Path", path |-> library_path]
    IN IF x.result = "NotFound"
       THEN scan_libraries([s1 EXCEPT !.probes = Append(@, probe("NotFound"))],
                           libs, names, symbol_name, k + 1)
       ELSE IF x.result = "MemberParse"
       THEN scan_libraries([s1 EXCEPT !.probes = Append(@, probe("MemberParse")),
                                      !.errors = Append(@, error)],
                           libs, names, symbol_name, k + 1)
       ELSE IF member.kind = "Coff"
       THEN LET queue == queue_member_drectve(st.queue, names, library_path,
                           member.path, parse_drectve_libraries(member.coff))
                r == add_coff(st.g, library_path, member.path, member.coff)
            IN IF r.result # "Ok"
               THEN scan_libraries(
                      [s1 EXCEPT !.queue = queue,
                                 !.probes = Append(@, probe("CoffError")),
                                 !.errors = Append(@, error)],
                      libs, names, symbol_name, k + 1)
               ELSE [s1 EXCEPT !.g = r.g, !.queue = queue,
                               !.probes = Append(@, probe("Coff")),
                               !.resolved = TRUE]
       ELSE LET r == add_library_import(st.g, symbol_name, member.import)
            IN IF r.result # "Ok"
               THEN scan_libraries(
                      [s1 EXCEPT !.g = r.g,
                                 !.probes = Append(@, probe("ImportError")),
                                 !.errors = Append(@, error)],
                      libs, names, symbol_name, k + 1)
               ELSE [s1 EXCEPT !.g = r.g,
                               !.probes = Append(@, probe("Import")),
                               !.resolved = TRUE]

scan_libraries(st, libs, names, symbol_name, k) ==
    IF k > Len(libs) THEN st
    ELSE scan_library(st, libs, names, symbol_name, k,
                      extract_symbol(world.archives[libs[k]],
                                     st.archives[libs[k]], symbol_name))

\* One turn of the 'symbol loop (lines 303-431); when the buffer is empty
\* afterwards control is back at the head of the outer loop.
ResolveSymbol ==
    /\ pc = "symbol"
    /\ symbol_search_buffer # <<>>
    /\ \E symbol_name \in { Head(symbol_search_buffer) } :
       \E rest \in { Tail(symbol_search_buffer) } :
       \E api \in { extract_api_symbol(world.api, symbol_name) } :
       \E a \in { IF api.found
                   THEN add_api_import(graph, symbol_name, api.import)
                   ELSE [g |-> graph, result |-> "NotFound"] } :
          /\ symbol_search_buffer' = rest
          /\ pc' = IF rest = <<>> THEN "resolve" ELSE "symbol"
          /\ IF a.result = "Ok"
             THEN /\ graph' = a.g
                  /\ last' = [symbol |-> symbol_name, api |-> "Ok",
                              probes |-> <<>>, resolved |-> TRUE]
                  /\ UNCHANGED <<archives, link_libraries, library_names,
                                 drectve_queue, undefined_symbols, setup_errors>>
             ELSE \E d \in { drain_drectve(
                                 [names |-> library_names,
                                  libs |-> link_libraries,
                                  archives |-> archives,
                                  errors |-> IF api.found
                                             THEN Append(setup_errors,
                                                     [kind |-> "Path",
                                                      path |-> "Beacon API"])
                                             ELSE setup_errors],
                                 world.files, drectve_queue) } :
                  \E s \in { scan_libraries(
                                 [g |-> a.g, archives |-> d.archives,
                                  queue |-> <<>>, errors |-> d.errors,
                                  probes |-> <<>>, resolved |-> FALSE],
                                 d.libs, d.names, symbol_name, 1) } :
                     /\ graph' = s.g
                     /\ archives' = s.archives
                     /\ link_libraries' = d.libs
                     /\ library_names' = d.names
                     /\ drectve_queue' = s.queue
                     /\ setup_errors' = s.errors
                     /\ undefined_symbols' =
                            IF s.resolved THEN undefined_symbols
                            ELSE set_insert(undefined_symbols, symbol_name)
                     /\ last' = [symbol |-> symbol_name,
                                 api |-> IF api.found THEN "Error" ELSE "NotFound",
                                 probes |-> s.probes, resolved |-> s.resolved]
    /\ UNCHANGED <<world, sections, output, result>>

\* ------------------------------------------------------------------------
\* BuiltLinkGraph  (src/src/graph/built.rs)
\* sections is the IndexMap of output sections, a sequence of
\* [name, header, nodes] in insertion order.
\* ------------------------------------------------------------------------

\* SectionHeader::default()
SectionHeader_default ==
    [characteristics |-> NoFlags, size_of_raw_data |-> 0,
     number_of_relocations |-> 0]

\* sections.get(name): position of the output section, 0 when absent.
section_index(secs, name) ==
    IF \E i \in 1..Len(secs) : secs[i].name = name
    THEN CHOOSE i \in 1..Len(secs) : secs[i].name = name
    ELSE 0

\* sections.entry(name).or_insert(header, no nodes)
section_entry(secs, name, header) ==
    IF section_index(secs, name) # 0 THEN secs
    ELSE Append(secs, [name |-> name, header |-> header, nodes |-> <<>>])

\* BuiltLinkGraph::new, the filter: the section nodes that are kept, and
\* the graph with the others discarded.  st = [g, kept].
RECURSIVE filter_sections(_, _)
filter_sections(st, i) ==
    IF i > Len(st.g.section_nodes) THEN st
    ELSE LET n == st.g.section_nodes[i] IN
         filter_sections(
            IF st.g.sects[n].characteristics.LnkRemove \/ is_debug(st.g.sects[n])
            THEN [st EXCEPT !.g.sects[n].discarded = TRUE]
            ELSE [st EXCEPT !.kept = Append(@, n)],
            i + 1)

\* BuiltLinkGraph::new, the fold: partition by group name.
RECURSIVE partition_sections(_, _, _)
partition_sections(secs, g, kept) ==
    IF kept = <<>> THEN secs
    ELSE LET group == group_name(g.sects[Head(kept)].name)
             s1 == section_entry(secs, group, SectionHeader_default)
             k  == section_index(s1, group)
         IN partition_sections([s1 EXCEPT ![k].nodes = Append(@, Head(kept))],
                               g, Tail(kept))

\* slice::sort_by_key on the section name: a stable sort.
RECURSIVE insert_sorted(_, _, _)
insert_sorted(sorted, g, n) ==
    IF sorted = <<>> THEN <<n>>
    ELSE IF name_rank(g.sects[n].name) < name_rank(g.sects[Head(sorted)].name)
    THEN <<n>> \o sorted
    ELSE <<Head(sorted)>> \o insert_sorted(Tail(sorted), g, n)

RECURSIVE sort_by_name(_, _)
sort_by_name(nodes, g) ==
    IF nodes = <<>> THEN <<>>
    ELSE insert_sorted(sort_by_name(SubSeq(nodes, 1, Len(nodes) - 1), g), g,
                       nodes[Len(nodes)])

\* The same_bucket closure of the .rdata$zzz dedup (lines 141-154).
same_bucket(g, first, second) ==
    /\ group_ordering(g.sects[first].name) = <<"zzz">>
    /\ group_ordering(g.sects[second].name) = <<"zzz">>
    /\ is_empty(g.sects[first].relocation_edges)
    /\ is_empty(g.sects[second].relocation_edges)
    /\ g.sects[first].checksum = g.sects[second].checksum

\* Vec::dedup_by: an element is dropped when it is in the bucket of the
\* last element kept before it.
RECURSIVE dedup_by(_, _, _)
dedup_by(kept, g, nodes) ==
    IF nodes = <<>> THEN kept
    ELSE IF kept # <<>> /\ same_bucket(g, Head(nodes), kept[Len(kept)])
    THEN dedup_by(kept, g, Tail(nodes))
    ELSE dedup_by(Append(kept, Head(nodes)), g, Tail(nodes))

\* BuiltLinkGraph::new, lines 133-160: the nodes of every output section
\* sorted by name, and the duplicates of .rdata dropped.
sort_sections(secs, g) ==
    [i \in 1..Len(secs) |->
        [secs[i] EXCEPT !.nodes =
            IF secs[i].name = ".rdata"
            THEN dedup_by(<<>>, g, sort_by_name(@, g))
            ELSE sort_by_name(@, g)]]

\* BuiltLinkGraph::new: the graph and the output sections.
BuiltLinkGraph_new(g) ==
    LET f == filter_sections([g |-> g, kept |-> <<>>], 1)
    IN [g |-> f.g,
        sections |-> sort_sections(partition_sections(<<>>, f.g, f.kept), f.g)]

\* The rest of link() after the resolution loop (lines 448-465): the setup
\* errors, LinkGraph::finish and BuiltLinkGraph::new.
Finish ==
    /\ pc = "finish"
    /\ IF setup_errors # <<>>
       THEN /\ result' = [kind |-> "Setup", errors |-> setup_errors]
            /\ pc' = "done"
            /\ UNCHANGED <<graph, sections>>
       ELSE \E errors \in { finish(graph) } :
            IF errors # <<>>
       THEN /\ result' = [kind |-> "Symbol", errors |-> errors]
            /\ pc' = "done"
            /\ UNCHANGED <<graph, sections>>
       ELSE \E b \in { BuiltLinkGraph_new(graph) } :
            /\ graph' = b.g
            /\ sections' = b.sections
            /\ pc' = IF world.merge_bss THEN "merge_bss" ELSE "apply_import_thunks"
            /\ UNCHANGED result
    /\ UNCHANGED <<world, driver_vars, output>>

\* sections.entry(name).or_insert(...).nodes.push(node)
push_node(secs, name, header, node) ==
    LET s1 == section_entry(secs, name, header)
        k  == section_index(s1, name)
    IN [s1 EXCEPT ![k].nodes = Append(@, node)]

\* allocate_commons, lines 208-228: the COMMON symbols in the order of their
\* first definition edge on the COMMON section, an IndexMap keyed by name.
RECURSIVE common_symbols_of(_, _, _)
common_symbols_of(g, edges, seen) ==
    IF edges = <<>> THEN seen
    ELSE LET s == g.defs[Head(edges)].source IN
         common_symbols_of(g, Tail(edges),
            IF \E i \in 1..Len(seen) : g.syms[seen[i]].name = g.syms[s].name
            THEN [i \in 1..Len(seen) |->
                    IF g.syms[seen[i]].name = g.syms[s].name THEN s ELSE seen[i]]
            ELSE Append(seen, s))

\* max_by_key on the definition addresses of a symbol.
max_value(g, s) ==
    LET ds == definitions(g, s)
    IN CHOOSE v \in {g.defs[ds[i]].weight.address : i \in 1..Len(ds)} :
          \A i \in 1..Len(ds) : g.defs[ds[i]].weight.address <= v

\* slice::sort_by_key on the size: a stable sort of [symbol, size] pairs.
RECURSIVE insert_by_size(_, _)
insert_by_size(sorted, p) ==
    IF sorted = <<>> THEN <<p>>
    ELSE IF p.size < Head(sorted).size THEN <<p>> \o sorted
    ELSE <<Head(sorted)>> \o insert_by_size(Tail(sorted), p)

RECURSIVE sort_by_size(_)
sort_by_size(ps) ==
    IF ps = <<>> THEN <<>>
    ELSE insert_by_size(sort_by_size(SubSeq(ps, 1, Len(ps) - 1)), ps[Len(ps)])

\* allocate_commons, lines 243-264: the address loop.  st = [g, addr].
RECURSIVE assign_common_addresses(_, _, _, _)
assign_common_addresses(st, ps, align, i) ==
    IF i > Len(ps) THEN st
    ELSE LET symbol      == ps[i].symbol
             symbol_addr == next_multiple_of(st.addr, align)
             popped      == pop_front(st.g.defs,
                                      st.g.syms[symbol].definition_edges,
                                      "next_outgoing")
             common_def  == popped.removed
             defs1       == [popped.edges EXCEPT
                                ![common_def].weight.address = symbol_addr]
             pushed      == push_back(defs1, clear(popped.list), common_def,
                                      "next_outgoing")
         IN assign_common_addresses(
              [g |-> [st.g EXCEPT !.defs = pushed.edges,
                                  !.syms[symbol].definition_edges = pushed.list],
               addr |-> symbol_addr + ps[i].size],
              ps, align, i + 1)

\* allocate_commons, lines 273-282: the COMMON section's list is cleared and
\* refilled with the front definition of each symbol.
RECURSIVE relink_common_section(_, _, _, _)
relink_common_section(g, common, ps, i) ==
    IF i > Len(ps) THEN g
    ELSE LET definition == g.syms[ps[i].symbol].definition_edges.head
             pushed == push_back(g.defs, g.sects[common].definition_edges,
                                 definition, "next_incoming")
         IN relink_common_section(
              [g EXCEPT !.defs = pushed.edges,
                        !.sects[common].definition_edges = pushed.list],
              common, ps, i + 1)

\* SectionNode::set_uninitialized_size
set_uninitialized_size(s, val) ==
    IF ~s.data.init THEN [s EXCEPT !.data = Uninitialized(val)] ELSE s

\* allocate_commons, lines 208-240: the COMMON symbols with their sizes,
\* sorted by size.
common_sizes(g, common) ==
    LET syms == common_symbols_of(g,
                   iter(g.defs, g.sects[common].definition_edges,
                        "next_incoming"), <<>>)
    IN sort_by_size([i \in 1..Len(syms) |->
                       [symbol |-> syms[i], size |-> max_value(g, syms[i])]])

\* allocate_commons, lines 243-300, for the sorted symbols ps of the COMMON
\* section.
allocate_sorted_commons(g, secs, common, ps) ==
    LET a == assign_common_addresses([g |-> g, addr |-> 0], ps,
                alignment(g.sects[common].characteristics), 1)
    IN [g |-> [relink_common_section(
                  [a.g EXCEPT !.sects[common].definition_edges = clear(@)],
                  common, ps, 1)
               EXCEPT !.sects[common] = set_uninitialized_size(@, a.addr),
                      !.common_section = 0],
        sections |-> push_node(secs, ".bss",
                        [SectionHeader_default EXCEPT !.characteristics =
                            g.sects[common].characteristics],
                        common)]

\* BuiltLinkGraph::allocate_commons: the graph and the output sections after
\* the call.  common_section.take() leaves 0 in the cell.
allocate_commons(g, secs) ==
    IF g.common_section = 0 THEN [g |-> g, sections |-> secs]
    ELSE allocate_sorted_commons(g, secs, g.common_section,
                                 common_sizes(g, g.common_section))

\* merge_bss, lines 174-193: the nodes of .bss are appended to .data; both
\* output sections exist afterwards.
merge_bss_nodes(secs, bss) ==
    LET s3 == section_entry([secs EXCEPT ![bss].nodes = <<>>], ".data",
                 [SectionHeader_default EXCEPT !.characteristics =
                     [NoFlags EXCEPT !.CntInitializedData = TRUE,
                                     !.MemRead = TRUE, !.MemWrite = TRUE]])
    IN [s3 EXCEPT ![section_index(s3, ".data")].nodes = @ \o secs[bss].nodes]

merge_bss_sections(secs) == merge_bss_nodes(secs, section_index(secs, ".bss"))

\* BuiltLinkGraph::merge_bss
merge_bss(g, secs) ==
    LET a == allocate_commons(g, secs)
    IN [g |-> a.g,
        sections |-> merge_bss_sections(
                        section_entry(a.sections, ".bss", SectionHeader_default))]

\* link(), lines 463-465: the --merge-bss step.
MergeBss ==
    /\ pc = "merge_bss"
    /\ \E m \in { merge_bss(graph, sections) } :
       /\ graph' = m.g
       /\ sections' = m.sections
    /\ pc' = "apply_import_thunks"
    /\ UNCHANGED <<world, driver_vars, output, result>>

\* apply_import_thunks, lines 305-318: the (symbol, import name) pairs that
\* need a thunk, over the imports of the API node and then of each library.
RECURSIVE collect_thunks(_, _, _)
collect_thunks(g, libraries, k) ==
    IF k > Len(libraries) THEN <<>>
    ELSE LET es == iter(g.imps, g.libs[libraries[k]].import_edges, "next_incoming")
             wanted(e) ==
                LET symbol == g.imps[e].source
                    import_name == g.imps[e].weight.import_name
                IN /\ \/ strip_dllimport(g.syms[symbol].name) = <<>>
                      \/ strip_dllimport(g.syms[symbol].name)[1] # import_name
                   /\ ~is_unreferenced(g, symbol)
         IN [i \in 1..Len(SelectSeq(es, wanted)) |->
                [symbol |-> g.imps[SelectSeq(es, wanted)[i]].source,
                 import_name |-> g.imps[SelectSeq(es, wanted)[i]].weight.import_name]]
            \o collect_thunks(g, libraries, k + 1)

\* const CODE_THUNK: jmp [rip + $<symbol>]
CODE_THUNK == <<255, 37, 0, 0, 0, 0, 144, 144>>

RECURSIVE thunk_data(_)
thunk_data(n) == IF n = 0 THEN <<>> ELSE CODE_THUNK \o thunk_data(n - 1)

\* A thunk whose relocation sits on the opcode instead of the operand.
thunk_reloc_at_opcode(machine) ==
    IF machine = "Amd64" THEN [virtual_address |-> 0, typ |-> "REL32"]
    ELSE [virtual_address |-> 0, typ |-> "DIR32"]

\* thunk_reloc, lines 345-348
thunk_reloc(machine) ==
    IF machine = "Amd64" THEN [virtual_address |-> 2, typ |-> "REL32"]
    ELSE [virtual_address |-> 2, typ |-> "DIR32"]

\* apply_import_thunks, lines 384-399: the import edge of the symbol is
\* moved to the import symbol of its thunk.
move_import_edge(g, symbol_node, thunk_import_symbol) ==
    LET popped == pop_front(g.imps, g.syms[symbol_node].import_edges,
                            "next_outgoing")
        removed_import_edge == popped.removed
        pushed == push_back([popped.edges EXCEPT
                                ![removed_import_edge].source = thunk_import_symbol],
                            g.syms[thunk_import_symbol].import_edges,
                            removed_import_edge, "next_outgoing")
    IN [g EXCEPT !.imps = pushed.edges,
                 !.syms[symbol_node].import_edges = popped.list,
                 !.syms[thunk_import_symbol].import_edges = pushed.list]

\* apply_import_thunks, lines 350-400: one turn of the loop, for the thunk
\* number symbol_num (0-based) of thunks[symbol_num + 1].
add_thunk(g, code_section, thunks, symbol_num) ==
    LET symbol_node == thunks[symbol_num + 1].symbol
        import_name == thunks[symbol_num + 1].import_name
        symbol_addr == symbol_num * 8
        thunk_import_symbol == Len(g.syms) + 1
    IN move_import_edge(
          link_relocation(
             [link_definition(g, Edge_new(symbol_node, code_section,
                                 [address |-> symbol_addr, selection |-> 0]))
              EXCEPT !.syms = Append(@,
                    SymbolNode_new("__imp_" \o import_name, "External", FALSE))],
             Edge_new(code_section, thunk_import_symbol,
                  [virtual_address |->
                       thunk_reloc(g.machine).virtual_address + symbol_addr,
                   typ |-> thunk_reloc(g.machine).typ])),
          symbol_node, thunk_import_symbol)

RECURSIVE add_thunks(_, _, _, _)
add_thunks(g, code_section, thunks, symbol_num) ==
    IF symbol_num >= Len(thunks) THEN g
    ELSE add_thunks(add_thunk(g, code_section, thunks, symbol_num),
                    code_section, thunks, symbol_num + 1)

\* The libraries apply_import_thunks and the symbol reservation walk:
\* the API node, then the library nodes.
import_libraries(g) ==
    (IF g.api_node # 0 THEN <<g.api_node>> ELSE <<>>) \o g.library_nodes

\* BuiltLinkGraph::apply_import_thunks
apply_import_thunks(g, secs) ==
    LET thunk_symbols == collect_thunks(g, import_libraries(g), 1) IN
    IF thunk_symbols = <<>> THEN [g |-> g, sections |-> secs]
    ELSE LET code_section == Len(g.sects) + 1
         IN [g |-> add_thunks(
                     [g EXCEPT !.sects = Append(@,
                        SectionNode_new(".text$zzz",
                            [NoFlags EXCEPT !.CntCode = TRUE, !.MemExecute = TRUE,
                                            !.MemRead = TRUE, !.align = 4],
                            Initialized(thunk_data(Len(thunk_symbols))), 0, 0))],
                     code_section, thunk_symbols, 0),
             sections |-> push_node(secs, group_name(".text$zzz"),
                                    SectionHeader_default, code_section)]

\* link(), line 495
ApplyImportThunks ==
    /\ pc = "apply_import_thunks"
    /\ \E t \in { apply_import_thunks(graph, sections) } :
       /\ graph' = t.g
       /\ sections' = t.sections
    /\ pc' = "handle_comdats"
    /\ UNCHANGED <<world, driver_vars, output, result>>

\* AssociativeBfs: the sections in the order the iterator yields them.
RECURSIVE associative_bfs_from(_, _, _)
associative_bfs_from(g, queue, visited) ==
    IF queue = <<>> THEN <<>>
    ELSE LET next_section == Head(queue)
             es == iter(g.assocs, g.sects[next_section].associative_edges,
                        "next_outgoing")
             targets == [i \in 1..Len(es) |-> g.assocs[es[i]].target]
             fresh == SelectSeq(targets, LAMBDA t : t \notin visited)
             \* a target met twice in one list is queued once
             once == [i \in 1..Len(fresh) |->
                        IF \E j \in 1..(i - 1) : fresh[j] = fresh[i] THEN 0
                        ELSE fresh[i]]
             new == SelectSeq(once, LAMBDA t : t # 0)
         IN <<next_section>>
            \o associative_bfs_from(g, Tail(queue) \o new, visited \cup Range(new))

\* SectionNode::associative_bfs
associative_bfs(g, root) == associative_bfs_from(g, <<root>>, {root})

\* section.discard() on the target of each of the definitions ds.
RECURSIVE discard_targets(_, _)
discard_targets(g, ds) ==
    IF ds = <<>> THEN g
    ELSE discard_targets([g EXCEPT !.sects[g.defs[Head(ds)].target].discarded = TRUE],
                         Tail(ds))

\* A resolution that keeps the last definition instead of the first.
keep_last(g, ds) == discard_targets(g, SubSeq(ds, 1, Len(ds) - 1))

\* handle_comdats, lines 426-441: Any, SameSize and ExactMatch.
keep_first(g, ds) == discard_targets(g, Tail(ds))

\* handle_comdats, lines 442-462: Largest.  largest = 0 stands for None.
RECURSIVE keep_largest(_, _, _)
keep_largest(g, ds, largest) ==
    IF ds = <<>> THEN g
    ELSE LET section == g.defs[Head(ds)].target IN
         IF largest = 0 THEN keep_largest(g, Tail(ds), section)
         ELSE IF data_len(g.sects[largest].data) < data_len(g.sects[section].data)
         THEN keep_largest([g EXCEPT !.sects[largest].discarded = TRUE],
                           Tail(ds), section)
         ELSE keep_largest(g, Tail(ds), largest)

\* set_discarded(val) on each of the sections
RECURSIVE set_discarded_all(_, _, _)
set_discarded_all(g, sects, val) ==
    IF sects = <<>> THEN g
    ELSE set_discarded_all([g EXCEPT !.sects[Head(sects)].discarded = val],
                           Tail(sects), val)

\* handle_comdats, lines 469-489: the dependents of the target of each of
\* the definitions ds take the discarded flag of that target.
RECURSIVE propagate(_, _)
propagate(g, ds) ==
    IF ds = <<>> THEN g
    ELSE LET root_section == g.defs[Head(ds)].target
             root_discarded == g.sects[root_section].discarded
         IN propagate(set_discarded_all(g, associative_bfs(g, root_section),
                                        root_discarded),
                      Tail(ds))

\* handle_comdats, one turn of the loop over the external symbols.
handle_comdat(g, symbol) ==
    LET ds == definitions(g, symbol) IN
    IF ds = <<>> THEN g
    ELSE LET selection == g.defs[Head(ds)].weight.selection IN
         IF selection = 0 THEN g
         ELSE IF selection \in {AnySel, SameSize, ExactMatch}
         THEN propagate(keep_first(g, ds), ds)
         ELSE IF selection = Largest
         THEN propagate(keep_largest(g, ds, 0), ds)
         ELSE IF selection = Associative THEN g
         ELSE propagate(g, ds)

\* BuiltLinkGraph::handle_comdats
RECURSIVE handle_comdats(_, _)
handle_comdats(g, i) ==
    IF i > Len(g.external_symbols) THEN g
    ELSE handle_comdats(handle_comdat(g, g.external_symbols[i]), i + 1)

\* link(), line 496
HandleComdats ==
    /\ pc = "handle_comdats"
    /\ graph' = handle_comdats(graph, 1)
    /\ pc' = "allocate_commons"
    /\ UNCHANGED <<world, driver_vars, sections, output, result>>

\* link(), line 497
AllocateCommons ==
    /\ pc = "allocate_commons"
    /\ \E a \in { allocate_commons(graph, sections) } :
       /\ graph' = a.g
       /\ sections' = a.sections
    /\ pc' = "layout"
    /\ UNCHANGED <<world, driver_vars, output, result>>

\* ------------------------------------------------------------------------
\* BuiltLinkGraph::link  (src/src/graph/built.rs, lines 494-1025)
\* ------------------------------------------------------------------------

\* Bitwise or of two 4-bit fields.
RECURSIVE BitOr(_, _)
BitOr(a, b) ==
    IF a = 0 THEN b
    ELSE IF b = 0 THEN a
    ELSE 2 * BitOr(a \div 2, b \div 2) + Max(a % 2, b % 2)

\* link(), lines 501-509: discarded members leave their output section and
\* an output section without members leaves the map.
retain(g, secs) ==
    LET kept == [i \in 1..Len(secs) |->
                    [secs[i] EXCEPT !.nodes =
                        SelectSeq(@, LAMBDA n : ~g.sects[n].discarded)]]
    IN SelectSeq(kept, LAMBDA s : s.nodes # <<>>)

\* Virtual addresses that pack the members without rounding up to their
\* alignment.
RECURSIVE assign_addresses_packed(_, _)
assign_addresses_packed(st, nodes) ==
    IF nodes = <<>> THEN st
    ELSE LET node  == Head(nodes)
             align == alignment(st.g.sects[node].characteristics)
         IN assign_addresses_packed(
              [g |-> [st.g EXCEPT !.sects[node].virtual_address = st.size],
               size |-> st.size + data_len(st.g.sects[node].data),
               align |-> IF align # 0 THEN Max(st.align, align) ELSE st.align],
              Tail(nodes))

\* link(), lines 535-556: virtual addresses of the members of one output
\* section.  st = [g, size, align].
RECURSIVE assign_addresses(_, _)
assign_addresses(st, nodes) ==
    IF nodes = <<>> THEN st
    ELSE LET node  == Head(nodes)
             align == alignment(st.g.sects[node].characteristics)
             at    == IF align # 0 THEN next_multiple_of(st.size, align)
                      ELSE st.size
         IN assign_addresses(
              [g |-> [st.g EXCEPT !.sects[node].virtual_address = at],
               size |-> at + data_len(st.g.sects[node].data),
               align |-> IF align # 0 THEN Max(st.align, align) ELSE st.align],
              Tail(nodes))

\* The layout of one output section with the flags of the first member
\* taken as they are.
layout_section_keeping_comdat(g, section) ==
    LET first_flags == zero_align(g.sects[Head(section.nodes)].characteristics)
        characteristics ==
            IF section.header.characteristics = NoFlags /\ section.nodes # <<>>
            THEN first_flags
            ELSE section.header.characteristics
        a == assign_addresses([g |-> g,
                               size |-> section.header.size_of_raw_data,
                               align |-> 0], section.nodes)
    IN [g |-> a.g,
        section |-> [section EXCEPT
            !.header.characteristics =
                IF a.align # 0
                THEN [characteristics EXCEPT
                        !.align = BitOr(@, ilog2(a.align) + 1)]
                ELSE characteristics,
            !.header.size_of_raw_data = a.size]]

\* link(), lines 516-563: the layout of one output section.
layout_section(g, section) ==
    LET first_flags == [zero_align(g.sects[Head(section.nodes)].characteristics)
                          EXCEPT !.LnkComdat = FALSE]
        characteristics ==
            IF section.header.characteristics = NoFlags /\ section.nodes # <<>>
            THEN first_flags
            ELSE section.header.characteristics
        a == assign_addresses([g |-> g,
                               size |-> section.header.size_of_raw_data,
                               align |-> 0], section.nodes)
    IN [g |-> a.g,
        section |-> [section EXCEPT
            !.header.characteristics =
                IF a.align # 0
                THEN [characteristics EXCEPT
                        !.align = BitOr(@, ilog2(a.align) + 1)]
                ELSE characteristics,
            !.header.size_of_raw_data = a.size]]

RECURSIVE layout(_, _, _)
layout(g, secs, i) ==
    IF i > Len(secs) THEN [g |-> g, sections |-> secs]
    ELSE LET l == layout_section(g, secs[i]) IN
         layout(l.g, [secs EXCEPT ![i] = l.section], i + 1)

\* link(), lines 499-563
Layout ==
    /\ pc = "layout"
    /\ \E l \in { layout(graph, retain(graph, sections), 1) } :
       /\ graph' = l.g
       /\ sections' = l.sections
    /\ pc' = "reserve_relocations"
    /\ UNCHANGED <<world, driver_vars, output, result>>

\* The find() of lines 584-587, 801-804 and 929-932: the first definition of
\* the symbol whose section is not discarded, 0 when there is none.
surviving_definition(g, symbol) ==
    LET ds == SelectSeq(definitions(g, symbol),
                        LAMBDA d : ~g.sects[g.defs[d].target].discarded)
    IN IF ds = <<>> THEN 0 ELSE Head(ds)

\* The test of lines 589 and 806: the relocation stays out of the table.
same_group(g, section_name, reloc) ==
    LET definition == surviving_definition(g, g.rels[reloc].target)
    IN /\ definition # 0
       /\ group_name(g.sects[g.defs[definition].target].name) = section_name

\* The test of line 592: no surviving definition and no import.
target_discarded(g, reloc) ==
    /\ surviving_definition(g, g.rels[reloc].target) = 0
    /\ is_empty(g.syms[g.rels[reloc].target].import_edges)

\* The relocation edges of the members of an output section, in the order
\* of lines 580-581, each with the member it belongs to.
RECURSIVE section_relocations(_, _)
section_relocations(g, nodes) ==
    IF nodes = <<>> THEN <<>>
    ELSE LET rs == iter(g.rels, g.sects[Head(nodes)].relocation_edges,
                        "next_outgoing")
         IN [i \in 1..Len(rs) |-> [node |-> Head(nodes), reloc |-> rs[i]]]
            \o section_relocations(g, Tail(nodes))

\* link(), lines 577-636 for one output section: the relocations counted up
\* to the first one that raises DiscardedSection.
RECURSIVE reserve_relocations(_, _, _, _)
reserve_relocations(g, section_name, rs, count) ==
    IF rs = <<>> THEN [count |-> count, error |-> <<>>]
    ELSE IF same_group(g, section_name, Head(rs).reloc)
    THEN reserve_relocations(g, section_name, Tail(rs), count)
    ELSE IF target_discarded(g, Head(rs).reloc)
    THEN [count |-> count,
          error |-> << [kind |-> "DiscardedSection",
                        symbol |-> g.rels[Head(rs).reloc].target] >>]
    ELSE reserve_relocations(g, section_name, Tail(rs), count + 1)

RECURSIVE reserve_all_relocations(_, _, _)
reserve_all_relocations(g, secs, i) ==
    IF i > Len(secs) THEN [sections |-> secs, error |-> <<>>]
    ELSE LET r == reserve_relocations(g, secs[i].name,
                     section_relocations(g, secs[i].nodes), 0)
         IN IF r.error # <<>> THEN [sections |-> secs, error |-> r.error]
            ELSE reserve_all_relocations(g,
                    [secs EXCEPT ![i].header.number_of_relocations = r.count],
                    i + 1)

\* The output COFF before anything is written to it.
Output_empty ==
    [reserved |-> 0, sections |-> <<>>, symbols |-> <<>>, stray |-> FALSE]

\* link(), lines 565-636
ReserveRelocations ==
    /\ pc = "reserve_relocations"
    /\ \E r \in { reserve_all_relocations(graph, sections, 1) } :
       IF r.error # <<>>
       THEN /\ result' = [kind |-> "Graph", errors |-> r.error]
            /\ pc' = "done"
            /\ UNCHANGED sections
       ELSE /\ sections' = r.sections
            /\ pc' = "reserve_symbols"
            /\ UNCHANGED result
    /\ UNCHANGED <<world, driver_vars, graph, output>>

\* assign_table_index storing the index after the reserved one.
assign_table_index_shifted(st, symbol, value) ==
    IF st.g.syms[symbol].table_index # -1
    THEN [st EXCEPT !.panic = << [kind |-> "AlreadyAssigned",
                                  symbol |-> symbol] >>]
    ELSE [st EXCEPT !.g.syms[symbol].table_index = value + 1]

\* SymbolNode::assign_table_index inside the unwrap_or_else of link(): the
\* second assignment to a symbol panics.  st = [g, next, panic].
assign_table_index(st, symbol, value) ==
    IF st.g.syms[symbol].table_index # -1
    THEN [st EXCEPT !.panic = << [kind |-> "AlreadyAssigned",
                                  symbol |-> symbol] >>]
    ELSE [st EXCEPT !.g.syms[symbol].table_index = value]

\* output_name().get_or_init(name)
init_output_name(st, symbol, name) ==
    IF st.g.syms[symbol].output_name # "" THEN st
    ELSE [st EXCEPT !.g.syms[symbol].output_name = name]

\* The definition edges of the members of an output section, in the order
\* of lines 644-646, each with the member it belongs to.
RECURSIVE section_definitions(_, _)
section_definitions(g, nodes) ==
    IF nodes = <<>> THEN <<>>
    ELSE LET ds == iter(g.defs, g.sects[Head(nodes)].definition_edges,
                        "next_incoming")
         IN [i \in 1..Len(ds) |-> [node |-> Head(nodes), def |-> ds[i]]]
            \o section_definitions(g, Tail(nodes))

\* link(), lines 646-685: the table index of one defined symbol.
reserve_definition(st, definition, section_symbol_index) ==
    LET symbol == st.g.defs[definition].source IN
    IF is_section_symbol(st.g, symbol) \/ is_label(st.g, symbol)
    THEN assign_table_index(st, symbol, section_symbol_index)
    ELSE LET named == init_output_name(st, symbol, st.g.syms[symbol].name)
         IN [assign_table_index(named, symbol, named.next)
                EXCEPT !.next = @ + 1]

RECURSIVE reserve_definitions(_, _, _)
reserve_definitions(st, ds, section_symbol_index) ==
    IF ds = <<>> \/ st.panic # <<>> THEN st
    ELSE reserve_definitions(
            reserve_definition(st, Head(ds).def, section_symbol_index),
            Tail(ds), section_symbol_index)

\* link(), lines 639-687: the section symbol, its auxiliary record and the
\* symbols defined in the members, for each output section.
RECURSIVE reserve_section_symbols(_, _, _)
reserve_section_symbols(st, secs, i) ==
    IF i > Len(secs) \/ st.panic # <<>> THEN st
    ELSE reserve_section_symbols(
            reserve_definitions([st EXCEPT !.next = @ + 2],
                                section_definitions(st.g, secs[i].nodes),
                                st.next),
            secs, i + 1)

\* The name an imported symbol gets in the output: its own name for an API
\* import (line 696), the library-qualified one otherwise (lines 714-718).
import_output_name(g, library, import) ==
    IF library = g.api_node THEN g.syms[g.imps[import].source].name
    ELSE "__imp_" \o trim_dll_suffix(g.libs[library].name) \o "$"
         \o g.imps[import].weight.import_name

\* link(), lines 689-733: the imported symbols of one library.
RECURSIVE reserve_imports(_, _, _)
reserve_imports(st, library, imports_left) ==
    IF imports_left = <<>> \/ st.panic # <<>> THEN st
    ELSE LET import == Head(imports_left)
             symbol == st.g.imps[import].source
             named  == init_output_name(st, symbol,
                                        import_output_name(st.g, library, import))
         IN reserve_imports(
                [assign_table_index(named, symbol, named.next)
                    EXCEPT !.next = @ + 1],
                library, Tail(imports_left))

RECURSIVE reserve_library_symbols(_, _, _)
reserve_library_symbols(st, libraries, k) ==
    IF k > Len(libraries) \/ st.panic # <<>> THEN st
    ELSE reserve_library_symbols(
            reserve_imports(st, libraries[k],
                iter(st.g.imps, st.g.libs[libraries[k]].import_edges,
                     "next_incoming")),
            libraries, k + 1)

\* link(), lines 638-736
ReserveSymbols ==
    /\ pc = "reserve_symbols"
    /\ \E s1 \in { reserve_section_symbols(
                      [g |-> graph, next |-> 0, panic |-> <<>>], sections, 1) } :
       \E s2 \in { reserve_library_symbols(s1, import_libraries(s1.g), 1) } :
          IF s2.panic # <<>>
          THEN /\ result' = [kind |-> "Panic", errors |-> s2.panic]
               /\ pc' = "done"
               /\ UNCHANGED <<graph, output>>
          ELSE /\ graph' = s2.g
               /\ output' = [output EXCEPT !.reserved = s2.next]
               /\ pc' = "write"
               /\ UNCHANGED result
    /\ UNCHANGED <<world, driver_vars, sections>>

\* vec![alignment_byte; n]
RECURSIVE padding(_, _)
padding(byte, n) == IF n <= 0 THEN <<>> ELSE <<byte>> \o padding(byte, n - 1)

\* link(), lines 768-791: the bytes of the members of one output section.
RECURSIVE write_nodes(_, _, _, _)
write_nodes(g, nodes, alignment_byte, written) ==
    IF nodes = <<>> THEN written
    ELSE LET node == g.sects[Head(nodes)]
             needed == node.virtual_address - Len(written)
             section_data == IF node.data.init THEN node.data.bytes
                             ELSE padding(alignment_byte, node.data.size)
         IN write_nodes(g, Tail(nodes), alignment_byte,
                        written \o padding(alignment_byte, needed) \o section_data)

\* link(), lines 753-793: the raw data of one output section.
write_section_data(g, section) ==
    IF /\ section.header.size_of_raw_data > 0
       /\ ~section.header.characteristics.CntUninitializedData
    THEN write_nodes(g, section.nodes,
                     IF section.header.characteristics.CntCode THEN 144 ELSE 0,
                     <<>>)
    ELSE <<>>

\* link(), lines 796-823: the relocation records of one output section;
\* symbol -1 is the panic of line 813.
write_relocations(g, section) ==
    LET rs == SelectSeq(section_relocations(g, section.nodes),
                        LAMBDA r : ~same_group(g, section.name, r.reloc))
    IN [i \in 1..Len(rs) |->
          [virtual_address |-> g.sects[rs[i].node].virtual_address
                               + g.rels[rs[i].reloc].weight.virtual_address,
           symbol |-> g.syms[g.rels[rs[i].reloc].target].table_index,
           typ |-> g.rels[rs[i].reloc].weight.typ]]

\* link(), lines 826-872: the symbol table entries of one output section.
write_section_symbols(g, section, index) ==
    LET ds == SelectSeq(section_definitions(g, section.nodes),
                 LAMBDA d : /\ ~is_section_symbol(g, g.defs[d.def].source)
                            /\ ~is_label(g, g.defs[d.def].source))
    IN << [kind |-> "Section", name |-> section.name, value |-> 0,
           section_number |-> index + 1, storage_class |-> "Static"],
          [kind |-> "Aux", name |-> "", value |-> section.header.size_of_raw_data,
           section_number |-> index + 1, storage_class |-> "Aux"] >>
       \o [i \in 1..Len(ds) |->
            [kind |-> "Defined",
             name |-> g.syms[g.defs[ds[i].def].source].output_name,
             value |-> g.defs[ds[i].def].weight.address
                       + g.sects[ds[i].node].virtual_address,
             section_number |-> index + 1,
             storage_class |-> g.syms[g.defs[ds[i].def].source].storage_class]]

RECURSIVE write_defined_symbols(_, _, _)
write_defined_symbols(g, secs, i) ==
    IF i > Len(secs) THEN <<>>
    ELSE write_section_symbols(g, secs[i], i - 1)
         \o write_defined_symbols(g, secs, i + 1)

\* link(), lines 874-912: the import edges in the order in which their
\* entries are written.
RECURSIVE import_walk(_, _, _)
import_walk(g, libraries, k) ==
    IF k > Len(libraries) THEN <<>>
    ELSE iter(g.imps, g.libs[libraries[k]].import_edges, "next_incoming")
         \o import_walk(g, libraries, k + 1)

\* link(), lines 874-912: the entries of the imported symbols.
RECURSIVE write_import_symbols(_, _, _)
write_import_symbols(g, libraries, k) ==
    IF k > Len(libraries) THEN <<>>
    ELSE LET is == iter(g.imps, g.libs[libraries[k]].import_edges, "next_incoming")
         IN [i \in 1..Len(is) |->
               [kind |-> "Import", name |-> g.syms[g.imps[is[i]].source].output_name,
                value |-> 0, section_number |-> 0, storage_class |-> "External"]]
            \o write_import_symbols(g, libraries, k + 1)

\* link(), lines 738-915: headers, section data, relocations and symbols.
WriteOutput ==
    /\ pc = "write"
    /\ \E secs \in { [i \in 1..Len(sections) |->
                        [name |-> sections[i].name,
                         characteristics |-> sections[i].header.characteristics,
                         size_of_raw_data |-> sections[i].header.size_of_raw_data,
                         number_of_relocations |->
                             sections[i].header.number_of_relocations,
                         data |-> write_section_data(graph, sections[i]),
                         relocations |-> write_relocations(graph, sections[i])]] } :
       \E syms \in { write_defined_symbols(graph, sections, 1)
                     \o write_import_symbols(graph, import_libraries(graph), 1) } :
       \E unassigned \in { \E i \in 1..Len(secs) :
                              \E r \in 1..Len(secs[i].relocations) :
                                 secs[i].relocations[r].symbol = -1 } :
       \E unnamed \in { \E i \in 1..Len(syms) :
                           /\ syms[i].kind \in {"Defined", "Import"}
                           /\ syms[i].name = "" } :
          IF unassigned \/ unnamed
          THEN /\ result' = [kind |-> "Panic",
                             errors |-> << [kind |-> IF unassigned
                                                     THEN "NeverAssigned"
                                                     ELSE "NeverNamed",
                                            symbol |-> 0] >>]
               /\ pc' = "done"
               /\ UNCHANGED output
          ELSE /\ output' = [output EXCEPT !.sections = secs, !.symbols = syms]
               /\ pc' = "fixup"
               /\ UNCHANGED result
    /\ UNCHANGED <<world, driver_vars, graph, sections>>

\* ------------------------------------------------------------------------
\* u32 arithmetic.  A u32 is [hi, lo], two 16-bit halves; the byte
\* conversions and the carries are spelled out.
\* ------------------------------------------------------------------------



\* A small natural number as a u32.
u32(n) == [hi |-> (n \div 65536) % 65536, lo |-> n % 65536]

\* u32::from_le_bytes
from_le_bytes(b) == [hi |-> b[3] + 256 * b[4], lo |-> b[1] + 256 * b[2]]

\* u32::from_be_bytes
from_be_bytes(b) == [hi |-> 256 * b[1] + b[2], lo |-> 256 * b[3] + b[4]]

\* u32::to_le_bytes
to_le_bytes(v) == <<v.lo % 256, v.lo \div 256, v.hi % 256, v.hi \div 256>>

\* The sum of two u32 and the carry out of bit 31.
add_with_carry(a, b) ==
    LET lo == a.lo + b.lo
        hi == a.hi + b.hi + (lo \div 65536)
    IN [value |-> [hi |-> hi % 65536, lo |-> lo % 65536], carry |-> hi \div 65536]

\* u32::wrapping_add
wrapping_add(a, b) == add_with_carry(a, b).value

\* An addition that wraps instead of failing.
checked_add_wrapping(a, b) == <<add_with_carry(a, b).value>>

\* u32::checked_add: <<sum>> for Some(sum), <<>> for None.
checked_add(a, b) ==
    IF add_with_carry(a, b).carry = 0 THEN <<add_with_carry(a, b).value>>
    ELSE <<>>

\* u32::wrapping_sub: a plus the two's complement of b.
wrapping_sub(a, b) ==
    wrapping_add(a, wrapping_add([hi |-> 65536 - 1 - b.hi, lo |-> 65536 - 1 - b.lo],
                                 u32(1)))

\* built_coff[at .. at + 4] = bytes, with at 0-based, in a byte sequence.
patch(data, at, bytes) ==
    [i \in 1..Len(data) |->
        IF i > at /\ i <= at + 4 THEN bytes[i - at] ELSE data[i]]

\* link(), lines 926-1019: the fix-up of one relocation edge of a member.
\* st = [data, error, stray]: the raw data of the output section, the error
\* raised and whether bytes outside the section data were written.
fixup_relocation(g, section, st, node, reloc_edge) ==
    LET target_symbol     == g.rels[reloc_edge].target
        symbol_definition == surviving_definition(g, target_symbol)
        target_section    == g.defs[symbol_definition].target
        reloc             == g.rels[reloc_edge].weight
        at                == g.sects[node].virtual_address + reloc.virtual_address
        reloc_data        == SubSeq(st.data, at + 1, at + 4)
        written(val) == [st EXCEPT !.data = patch(@, at, to_le_bytes(val))]
        overflow == [st EXCEPT !.error = << [kind |-> "RelocationOverflow",
                                             symbol |-> target_symbol] >>]
    IN IF symbol_definition = 0 THEN st
       ELSE IF reloc.virtual_address + 4 > data_len(g.sects[node].data)
       THEN [st EXCEPT !.error = << [kind |-> "RelocationBounds",
                                     symbol |-> target_symbol] >>]
       ELSE IF section.header.characteristics.CntUninitializedData
       THEN \* the output section has no raw data: the slice of lines 923-924
            \* starts at file offset 0 and lies over the headers
            [st EXCEPT !.stray = TRUE]
       ELSE IF is_section_symbol(g, target_symbol)
       THEN LET sum == checked_add(from_le_bytes(reloc_data),
                                   u32(g.sects[target_section].virtual_address))
            IN IF sum = <<>> THEN overflow ELSE written(sum[1])
       ELSE IF group_name(g.sects[node].name)
                  = group_name(g.sects[target_section].name)
       THEN LET reloc_addr  == reloc.virtual_address
                               + g.sects[node].virtual_address
                symbol_addr == g.defs[symbol_definition].weight.address
                               + g.sects[target_section].virtual_address
                reloc_val   == from_be_bytes(reloc_data)
                delta       == wrapping_sub(u32(symbol_addr), u32(reloc_addr + 4))
            IN written(wrapping_add(reloc_val, delta))
       ELSE IF is_label(g, target_symbol)
       THEN LET s1 == checked_add(from_le_bytes(reloc_data),
                                  u32(g.sects[target_section].virtual_address))
                s2 == IF s1 = <<>> THEN <<>>
                      ELSE checked_add(s1[1],
                              u32(g.defs[symbol_definition].weight.address))
            IN IF s2 = <<>> THEN overflow ELSE written(s2[1])
       ELSE st

\* The relocations of one output section, in order, up to the first error.
RECURSIVE fixup_relocations(_, _, _, _)
fixup_relocations(g, section, st, rs) ==
    IF rs = <<>> \/ st.error # <<>> THEN st
    ELSE fixup_relocations(g, section,
            fixup_relocation(g, section, st, Head(rs).node, Head(rs).reloc),
            Tail(rs))

\* The fixed data f of output section i goes into the output.
fixed_section(st, i, f) ==
    [out |-> [st.out EXCEPT !.sections[i].data = f.data,
                            !.stray = @ \/ f.stray],
     error |-> f.error]

\* link(), lines 918-1022: all output sections.  st = [out, error].
RECURSIVE fixup(_, _, _, _)
fixup(g, secs, st, i) ==
    IF i > Len(secs) \/ st.error # <<>> THEN st
    ELSE fixup(g, secs,
               fixed_section(st, i,
                  fixup_relocations(g, secs[i],
                     [data |-> st.out.sections[i].data, error |-> <<>>,
                      stray |-> FALSE],
                     section_relocations(g, secs[i].nodes))),
               i + 1)

\* link(), lines 917-1024
Fixup ==
    /\ pc = "fixup"
    /\ \E f \in { fixup(graph, sections, [out |-> output, error |-> <<>>], 1) } :
       IF f.error # <<>>
       THEN /\ result' = [kind |-> "Graph", errors |-> f.error]
            /\ output' = Output_empty
       ELSE /\ result' = [kind |-> "Ok", errors |-> <<>>]
            /\ output' = f.out
    /\ pc' = "done"
    /\ UNCHANGED <<world, driver_vars, graph, sections>>

\* ------------------------------------------------------------------------
\* Inputs.  A world is one invocation of the linker: the target, the COFFs
\* of the command line, the libraries and what the search path holds, the
\* API source and the options.  The worlds below are built from object
\* files as a compiler emits them; sections without initialized data carry
\* no relocations.
\* ------------------------------------------------------------------------

MaxDefs == 3        \* definitions of one COMDAT symbol
MaxCommons == 3     \* COMMON symbols of one link
MaxIdents == 3      \* objects with an identification string
MaxDirectives == 3  \* directives of one .drectve section

TextFlags ==
    [NoFlags EXCEPT !.CntCode = TRUE, !.MemExecute = TRUE, !.MemRead = TRUE,
                    !.align = 3]
RdataFlags ==
    [NoFlags EXCEPT !.CntInitializedData = TRUE, !.MemRead = TRUE, !.align = 3]
BssFlags ==
    [NoFlags EXCEPT !.CntUninitializedData = TRUE, !.MemRead = TRUE,
                    !.MemWrite = TRUE, !.align = 3]

Zeros(n) == [i \in 1..n |-> 0]

Sec(name, characteristics, data, relocations) ==
    [name |-> name, characteristics |-> characteristics, data |-> data,
     size_of_raw_data |-> Len(data), relocations |-> relocations]

Bss(name, size) ==
    [name |-> name, characteristics |-> BssFlags, data |-> <<>>,
     size_of_raw_data |-> size, relocations |-> <<>>]

Reloc(virtual_address, symbol) ==
    [virtual_address |-> virtual_address, symbol |-> symbol, typ |-> "REL32"]

Sym(name, storage_class, section_number, value) ==
    [name |-> name, storage_class |-> storage_class,
     section_number |-> section_number, value |-> value,
     has_aux_section |-> FALSE, selection |-> 0, number |-> 0, check_sum |-> 0]

SectSym(name, section_number, selection, number, check_sum) ==
    [name |-> name, storage_class |-> "Static",
     section_number |-> section_number, value |-> 0,
     has_aux_section |-> TRUE, selection |-> selection, number |-> number,
     check_sum |-> check_sum]

Coff(architecture, secs, symbols) ==
    [architecture |-> architecture, sections |-> secs, symbols |-> symbols,
     drectve |-> ""]

NoImport ==
    [architecture |-> "", symbol |-> "", dll |-> "",
     import |-> [ordinal |-> FALSE, name |-> ""]]

NoArchive == [symbols |-> <<>>, members |-> <<>>]

LibNames == {"one", "two"}
LibPaths == {"lib1", "lib2"}

World(target_arch, inputs, names, archs, api_symbols, merge) ==
    [target_arch |-> target_arch,
     inputs |-> inputs,
     library_names |-> names,
     files |-> [n \in LibNames |->
                  IF n = "one" THEN "lib1" ELSE "lib2"],
     archives |-> archs,
     api |-> [symbols |-> api_symbols, architecture |-> target_arch],
     entrypoint |-> <<>>,
     merge_bss |-> merge]

\* --- resolution and imports ---------------------------------------------

\* An object whose code refers to the names refs, all undefined in it.
Referrer(arch, refs) ==
    Coff(arch,
         << Sec(".text", TextFlags, Zeros(8),
                [i \in 1..Len(refs) |-> Reloc(4 * (i - 1), 2 + i)]) >>,
         << SectSym(".text", 1, 0, 0, 0), Sym("go", "External", 1, 0) >>
         \o [i \in 1..Len(refs) |-> Sym(refs[i], "External", 0, 0)])

\* An object that defines f and g in its code.
Definer(arch) ==
    Coff(arch,
         << Sec(".text", TextFlags, Zeros(8), <<>>) >>,
         << SectSym(".text", 1, 0, 0, 0), Sym("f", "External", 1, 0),
            Sym("g", "External", 1, 4) >>)

\* An object that only declares f and g as weak externals.
WeakDeclarer(arch) ==
    Coff(arch,
         << Sec(".text", TextFlags, Zeros(4), <<>>) >>,
         << SectSym(".text", 1, 0, 0, 0), Sym("f", "WeakExternal", 0, 0),
            Sym("g", "WeakExternal", 0, 0) >>)

OtherArch(arch) == IF arch = "Amd64" THEN "I386" ELSE "Amd64"

ImportOf(arch, public, name) ==
    [architecture |-> arch, symbol |-> public, dll |-> "KERNEL32.dll",
     import |-> [ordinal |-> FALSE, name |-> name]]

ArchiveKinds == {"empty", "coff", "import", "error", "weak", "mismatch"}

\* An archive whose symbol index lists f and g (and, for an import
\* library, their __imp_ names).
ArchiveOf(kind, arch) ==
    LET one(coff_kind, coff) ==
            [symbols |-> << [name |-> "f", offset |-> 1],
                            [name |-> "g", offset |-> 1] >>,
             members |-> << [path |-> "m1.o", kind |-> coff_kind,
                             coff |-> coff, import |-> NoImport] >>]
    IN CASE kind = "coff" -> one("Coff", Definer(arch))
         [] kind = "weak" -> one("Coff", WeakDeclarer(arch))
         [] kind = "mismatch" -> one("Coff", Definer(OtherArch(arch)))
         [] kind = "error" -> one("Error", Definer(arch))
         [] kind = "import" ->
              [symbols |-> << [name |-> "f", offset |-> 1],
                              [name |-> "__imp_f", offset |-> 1],
                              [name |-> "g", offset |-> 2],
                              [name |-> "__imp_g", offset |-> 2] >>,
               members |-> << [path |-> "f.o", kind |-> "Import",
                               coff |-> Definer(arch),
                               import |-> ImportOf(arch, "f", "f")],
                              [path |-> "g.o", kind |-> "Import",
                               coff |-> Definer(arch),
                               import |-> ImportOf(arch, "g", "g")] >>]
         [] OTHER -> NoArchive

RefSets ==
    { <<"f">>, <<"f", "g">>, <<"__imp_f">>, <<"BeaconPrintf">>,
      <<"BeaconPrintf", "f">>, <<"__imp_BeaconPrintf">> }

ResolveWorld(arch, refs, kind1, kind2) ==
    World(arch, << [path |-> "file1", coff |-> Referrer(arch, refs)] >>,
          IF kind2 = "none" THEN <<"one">> ELSE <<"one", "two">>,
          [p \in LibPaths |-> IF p = "lib1" THEN ArchiveOf(kind1, arch)
                              ELSE ArchiveOf(kind2, arch)],
          {"BeaconPrintf", "BeaconOutput"}, FALSE)

\* The pairs of archives of a world.  A second archive of weak declarations
\* behind a first one that fails to load is left out: that link reports the
\* same load error again on every pass and its error list has no bound.
ArchivePairs ==
    { k \in ArchiveKinds \X (ArchiveKinds \cup {"none"}) :
        ~(k[1] \in {"error", "mismatch"} /\ k[2] = "weak") }

ResolveWorlds ==
    { ResolveWorld("Amd64", refs, k[1], k[2]) :
        refs \in RefSets, k \in ArchivePairs }
    \cup { ResolveWorld("I386", refs, k1, "none") :
            refs \in RefSets, k1 \in {"coff", "import"} }

\* The names under which a compiler refers to a function and to its import
\* pointer, with and without the leading underscore of the 32-bit target,
\* for two roster names and a name that is not in the roster.
ApiNames ==
    { "BeaconPrintf", "_BeaconPrintf", "__imp_BeaconPrintf",
      "__imp__BeaconPrintf", "_BeaconOutput", "printf", "_printf",
      "__imp__printf" }

\* One reference, to be resolved by the API or by nothing.
ApiWorlds ==
    { ResolveWorld(arch, <<name>>, "empty", "none") :
        arch \in {"Amd64", "I386"}, name \in ApiNames }

\* An object that refers to a function and to its import pointer, in both
\* orders, linked against an import library.
BothNameWorlds ==
    { ResolveWorld("Amd64", refs, "import", "none") :
        refs \in { <<"f", "__imp_f">>, <<"__imp_f", "f">> } }

\* The same object file named several times on the command line.
MaxRepeats == 3

RepeatedInputWorld(times) ==
    World("Amd64",
          [i \in 1..times |-> [path |-> "file1", coff |-> Referrer("Amd64", <<>>)]],
          <<>>, [p \in LibPaths |-> NoArchive], {}, FALSE)

RepeatedInputWorlds == { RepeatedInputWorld(times) : times \in 2..MaxRepeats }

\* An archive whose first member is an object that defines f and g and whose
\* second member is the import of g; the symbol map lists f for the first
\* member and g for the second.
MixedArchive ==
    [symbols |-> << [name |-> "f", offset |-> 1], [name |-> "g", offset |-> 2] >>,
     members |-> << [path |-> "m1.o", kind |-> "Coff", coff |-> Definer("Amd64"),
                     import |-> NoImport],
                    [path |-> "g.o", kind |-> "Import", coff |-> Definer("Amd64"),
                     import |-> ImportOf("Amd64", "g", "g")] >>]

\* An object that refers to the names refs, linked against that archive and,
\* when second holds, against an archive of the object alone behind it.
MixedWorld(refs, second) ==
    World("Amd64", << [path |-> "file1", coff |-> Referrer("Amd64", refs)] >>,
          IF second THEN <<"one", "two">> ELSE <<"one">>,
          [p \in LibPaths |-> IF p = "lib1" THEN MixedArchive
                              ELSE ArchiveOf("coff", "Amd64")],
          {}, FALSE)

MixedWorlds ==
    { MixedWorld(refs, second) :
        refs \in { <<"f", "g">>, <<"g", "f">>, <<"g">>, <<"f">> },
        second \in BOOLEAN }

\* Two command line objects that both define go.
DuplicateWorld ==
    World("Amd64", << [path |-> "file1", coff |-> Referrer("Amd64", <<>>)],
                      [path |-> "file2", coff |-> Referrer("Amd64", <<"f">>)] >>,
          <<>>, [p \in LibPaths |-> NoArchive], {}, FALSE)

\* --- COMDAT sections ------------------------------------------------------

ComdatSizes == {8, 12}

\* All sequences over S of the lengths lo..hi.
SeqsOf(S, lo, hi) == UNION { [1..n -> S] : n \in lo..hi }

\* An object that defines c in a COMDAT .rdata section of the given size.
ComdatObject(selection, size) ==
    Coff("Amd64",
         << Sec(".rdata", [RdataFlags EXCEPT !.LnkComdat = TRUE],
                Zeros(size), <<>>) >>,
         << SectSym(".rdata", 1, selection, 0, size),
            Sym("c", "External", 1, 0) >>)

InputPaths == <<"file1", "file2", "file3", "file4", "file5">>

ComdatWorld(selection, sizes) ==
    World("Amd64",
          [i \in 1..Len(sizes) |->
              [path |-> InputPaths[i],
               coff |-> ComdatObject(selection, sizes[i])]],
          <<>>, [p \in LibPaths |-> NoArchive], {}, FALSE)

ComdatWorlds ==
    { ComdatWorld(selection, sizes) :
        selection \in {NoDuplicates, AnySel, SameSize, ExactMatch, Largest},
        sizes \in SeqsOf(ComdatSizes, 1, MaxDefs) }

\* An object with a .root section and sections associative to it: .assoc
\* hangs on .root and, when chained, a second .assoc hangs on the first.  The root is
\* a COMDAT section with the external symbol r, or a plain section.
AssocObject(root_comdat, root_remove, chained) ==
    Coff("Amd64",
         << Sec(".root",
                [RdataFlags EXCEPT !.LnkComdat = root_comdat,
                                   !.LnkRemove = root_remove],
                Zeros(16), <<>>),
            Sec(".assoc", [RdataFlags EXCEPT !.LnkComdat = TRUE],
                Zeros(16), <<>>) >>
         \o (IF chained
             THEN << Sec(".assoc", [RdataFlags EXCEPT !.LnkComdat = TRUE],
                         Zeros(4), <<>>) >>
             ELSE <<>>),
         << SectSym(".root", 1, IF root_comdat THEN AnySel ELSE 0, 0, 0) >>
         \o (IF root_comdat THEN << Sym("r", "External", 1, 0) >> ELSE <<>>)
         \o << SectSym(".assoc", 2, Associative, 1, 0) >>
         \o (IF chained THEN << SectSym(".assoc", 3, Associative, 2, 0) >>
             ELSE <<>>))

AssocWorld(files, root_comdat, root_remove, chained) ==
    World("Amd64",
          [i \in 1..files |->
              [path |-> InputPaths[i],
               coff |-> AssocObject(root_comdat, root_remove, chained)]],
          <<>>, [p \in LibPaths |-> NoArchive], {}, FALSE)

AssocWorlds ==
    { AssocWorld(files, root_comdat, root_remove, chained) :
        files \in 1..2, root_comdat \in BOOLEAN, root_remove \in BOOLEAN,
        chained \in BOOLEAN }

\* An object whose COMDAT section .root, defined by the external symbol r, is
\* kept, with one section associative to it: a debug section or a plain one,
\* with or without IMAGE_SCN_LNK_REMOVE.
DependentNames == {".assoc", ".debug$S"}

KeptRootObject(dependent, dependent_remove) ==
    Coff("Amd64",
         << Sec(".root", [RdataFlags EXCEPT !.LnkComdat = TRUE], Zeros(16), <<>>),
            Sec(dependent,
                [RdataFlags EXCEPT !.LnkComdat = TRUE,
                                   !.LnkRemove = dependent_remove],
                Zeros(8), <<>>) >>,
         << SectSym(".root", 1, AnySel, 0, 0),
            Sym("r", "External", 1, 0),
            SectSym(dependent, 2, Associative, 1, 0) >>)

KeptRootWorld(dependent, dependent_remove) ==
    World("Amd64",
          << [path |-> InputPaths[1],
              coff |-> KeptRootObject(dependent, dependent_remove)] >>,
          <<>>, [p \in LibPaths |-> NoArchive], {}, FALSE)

KeptRootWorlds ==
    { KeptRootWorld(dependent, dependent_remove) :
        dependent \in DependentNames, dependent_remove \in BOOLEAN }

\* --- imports referenced from sections that are discarded ------------------

\* An object with one 8-byte section that, when refers holds, has a
\* relocation against the undefined external f.  The section is plain code,
\* code with IMAGE_SCN_LNK_REMOVE, a debug section, or a COMDAT code section
\* (selection Any) defined by the external symbol c.
SectionKinds == {"plain", "remove", "debug", "comdat"}

KindObject(kind, refers) ==
    Coff("Amd64",
         << Sec(IF kind = "debug" THEN ".debug$S" ELSE ".text",
                [TextFlags EXCEPT !.LnkRemove = (kind = "remove"),
                                  !.LnkComdat = (kind = "comdat")],
                Zeros(8),
                IF refers THEN << Reloc(0, IF kind = "comdat" THEN 3 ELSE 2) >>
                ELSE <<>>) >>,
         << SectSym(IF kind = "debug" THEN ".debug$S" ELSE ".text", 1,
                    IF kind = "comdat" THEN AnySel ELSE 0, 0, 0) >>
         \o (IF kind = "comdat" THEN << Sym("c", "External", 1, 0) >> ELSE <<>>)
         \o (IF refers THEN << Sym("f", "External", 0, 0) >> ELSE <<>>))

\* The objects on the command line, and an import library that provides f.
KindWorld(objects) ==
    World("Amd64",
          [i \in 1..Len(objects) |->
              [path |-> InputPaths[i],
               coff |-> KindObject(objects[i][1], objects[i][2])]],
          <<"one">>,
          [p \in LibPaths |-> IF p = "lib1" THEN ArchiveOf("import", "Amd64")
                              ELSE NoArchive],
          {}, FALSE)

KindWorlds ==
    { KindWorld(objects) : objects \in SeqsOf(SectionKinds \X BOOLEAN, 1, 2) }

\* --- COMMON symbols -------------------------------------------------------

CommonSizes == {3, 8, 12}
CommonNames == <<"a", "b", "c", "d", "e">>

\* An object that declares one COMMON symbol per size, and has its own .bss
\* and .data.
CommonObject(arch, sizes) ==
    Coff(arch,
         << Sec(".data", [RdataFlags EXCEPT !.MemWrite = TRUE], Zeros(4), <<>>),
            Bss(".bss", 4) >>,
         << SectSym(".data", 1, 0, 0, 0), SectSym(".bss", 2, 0, 0, 0) >>
         \o [i \in 1..Len(sizes) |-> Sym(CommonNames[i], "External", 0, sizes[i])])

CommonWorld(arch, sizes, merge) ==
    World(arch, << [path |-> "file1", coff |-> CommonObject(arch, sizes)] >>,
          <<>>, [p \in LibPaths |-> NoArchive], {}, merge)

CommonWorlds ==
    { CommonWorld(arch, sizes, FALSE) :
        arch \in {"Amd64", "I386"}, sizes \in SeqsOf(CommonSizes, 1, MaxCommons) }
    \cup { CommonWorld("Amd64", sizes, TRUE) : sizes \in SeqsOf(CommonSizes, 0, 2) }

\* One object per size, each declaring the COMMON symbol a with that size.
SharedCommonWorld(sizes) ==
    World("Amd64",
          [i \in 1..Len(sizes) |->
              [path |-> InputPaths[i],
               coff |-> CommonObject("Amd64", << sizes[i] >>)]],
          <<>>, [p \in LibPaths |-> NoArchive], {}, FALSE)

SharedCommonWorlds ==
    { SharedCommonWorld(sizes) : sizes \in SeqsOf(CommonSizes, 2, 2) }

\* --- the .bss merge ---------------------------------------------------------

\* An object with 4 bytes of .bss, one COMMON symbol per size and, when
\* with_data, 4 nonzero bytes of .data.
MergeObject(with_data, sizes) ==
    Coff("Amd64",
         (IF with_data
          THEN << Sec(".data", [RdataFlags EXCEPT !.MemWrite = TRUE],
                      <<7, 7, 7, 7>>, <<>>) >>
          ELSE <<>>)
         \o << Bss(".bss", 4) >>,
         (IF with_data THEN << SectSym(".data", 1, 0, 0, 0) >> ELSE <<>>)
         \o << SectSym(".bss", IF with_data THEN 2 ELSE 1, 0, 0, 0) >>
         \o [i \in 1..Len(sizes) |-> Sym(CommonNames[i], "External", 0, sizes[i])])

\* An object with the COMDAT function f, 4 bytes of .bss and, when
\* with_data, 4 nonzero bytes of .data associative to the section of f.
MergeComdatObject(with_data) ==
    Coff("Amd64",
         << Sec(".text", [TextFlags EXCEPT !.LnkComdat = TRUE], Zeros(8), <<>>),
            Bss(".bss", 4) >>
         \o (IF with_data
             THEN << Sec(".data", [RdataFlags EXCEPT !.MemWrite = TRUE,
                                                    !.LnkComdat = TRUE],
                         <<7, 7, 7, 7>>, <<>>) >>
             ELSE <<>>),
         << SectSym(".text", 1, AnySel, 0, 0), Sym("f", "External", 1, 0),
            SectSym(".bss", 2, 0, 0, 0) >>
         \o (IF with_data THEN << SectSym(".data", 3, Associative, 1, 0) >>
             ELSE <<>>))

MergeWorld(objects) ==
    World("Amd64",
          [i \in 1..Len(objects) |-> [path |-> InputPaths[i], coff |-> objects[i]]],
          <<>>, [p \in LibPaths |-> NoArchive], {}, TRUE)

MergeWorlds ==
    { MergeWorld(<< MergeObject(with_data, sizes) >>) :
        with_data \in BOOLEAN, sizes \in SeqsOf(CommonSizes, 0, 1) }
    \cup { MergeWorld(<< MergeComdatObject(first), MergeComdatObject(second) >>) :
             first \in BOOLEAN, second \in BOOLEAN }

\* --- relocations ----------------------------------------------------------

\* The inline addends, as the four bytes of the field in the object file.
Addends ==
    { <<0, 0, 0, 0>>, <<1, 0, 0, 0>>, <<4, 3, 2, 1>>, <<255, 255, 255, 255>>,
      <<240, 255, 255, 255>> }

RelocTargets ==
    { "own_text_section", "own_rdata_section", "own_function",
      "other_function", "rdata_label", "rdata_variable" }

\* The first object of a relocation world: 8 bytes of code that define go
\* and t, and 16 bytes of read-only data.
FirstObject ==
    Coff("Amd64",
         << Sec(".text", TextFlags, Zeros(8), <<>>),
            Sec(".rdata", RdataFlags, Zeros(16), <<>>) >>,
         << SectSym(".text", 1, 0, 0, 0), SectSym(".rdata", 2, 0, 0, 0),
            Sym("go", "External", 1, 0), Sym("t", "External", 1, 4) >>)

\* The second object: its code has one relocation, at offset at, with the
\* addend in place, against the target.
RelocObject(target, addend, at) ==
    Coff("Amd64",
         << Sec(".text", TextFlags,
                [i \in 1..8 |-> IF i > at /\ i <= at + 4 THEN addend[i - at]
                                ELSE 0],
                << Reloc(at,
                         CASE target = "own_text_section" -> 1
                           [] target = "own_rdata_section" -> 2
                           [] target = "own_function" -> 3
                           [] target = "other_function" -> 4
                           [] target = "rdata_label" -> 5
                           [] OTHER -> 6) >>),
            Sec(".rdata", RdataFlags, Zeros(8), <<>>) >>,
         << SectSym(".text", 1, 0, 0, 0), SectSym(".rdata", 2, 0, 0, 0),
            Sym("t2", "External", 1, 4), Sym("t", "External", 0, 0),
            Sym("lab", "Label", 2, 4), Sym("d", "External", 2, 0) >>)

RelocWorld(target, addend, at) ==
    World("Amd64", << [path |-> "file1", coff |-> FirstObject],
                      [path |-> "file2", coff |-> RelocObject(target, addend, at)] >>,
          <<>>, [p \in LibPaths |-> NoArchive], {}, FALSE)

RelocWorlds ==
    { RelocWorld(target, addend, at) :
        target \in RelocTargets, addend \in Addends, at \in {0, 4} }
    \cup { RelocWorld(target, <<0, 0, 0, 0>>, 6) : target \in RelocTargets }

\* An object whose 8 bytes of code have one relocation, at offset at,
\* against the name, which the object does not define.
ImportReferrer(name, at) ==
    Coff("Amd64",
         << Sec(".text", TextFlags, Zeros(8), << Reloc(at, 3) >>) >>,
         << SectSym(".text", 1, 0, 0, 0), Sym("go", "External", 1, 0),
            Sym(name, "External", 0, 0) >>)

\* The name is found in an import library (f, __imp_f) or in the API.
ImportRelocWorld(name, at) ==
    World("Amd64", << [path |-> "file1", coff |-> ImportReferrer(name, at)] >>,
          <<"one">>,
          [p \in LibPaths |-> IF p = "lib1" THEN ArchiveOf("import", "Amd64")
                              ELSE NoArchive],
          {"BeaconPrintf", "BeaconOutput"}, FALSE)

ImportRelocWorlds ==
    { ImportRelocWorld(name, at) :
        name \in {"f", "__imp_f", "BeaconPrintf", "__imp_BeaconPrintf"},
        at \in {4, 6} }

\* --- directives of archive members ----------------------------------------

\* The directives a compiler writes: text is the directive and lib its
\* library, for the directives that name a default library.
Directives ==
    { [text |-> "/DEFAULTLIB:two.lib", lib |-> <<"two.lib">>],
      [text |-> "-defaultlib:\"two\"", lib |-> <<"two">>],
      [text |-> "/DEFAULTLIB:one",     lib |-> <<"one">>],
      [text |-> "/EXPORT:\"f g\"",     lib |-> <<>>],
      [text |-> "/THROWINGNEW",        lib |-> <<>>] }

DirectiveLists == SeqsOf(Directives, 1, MaxDirectives)

\* The section data: each directive after a space and, when closed, a
\* space at the end.
RECURSIVE DrectveData(_, _)
DrectveData(ds, closed) ==
    IF ds = <<>> THEN (IF closed THEN " " ELSE "")
    ELSE " " \o Head(ds).text \o DrectveData(Tail(ds), closed)

\* The default libraries of a list of directives, in order.
RECURSIVE DefaultLibs(_)
DefaultLibs(ds) ==
    IF ds = <<>> THEN <<>> ELSE Head(ds).lib \o DefaultLibs(Tail(ds))

\* An object that defines the name, with the section data in its .drectve.
DefinerOf(name, section_data) ==
    [Coff("Amd64",
          << Sec(".text", TextFlags, Zeros(8), <<>>) >>,
          << SectSym(".text", 1, 0, 0, 0), Sym(name, "External", 1, 0) >>)
        EXCEPT !.drectve = section_data]

ArchiveWith(name, coff) ==
    [symbols |-> << [name |-> name, offset |-> 1] >>,
     members |-> << [path |-> "m1.o", kind |-> "Coff", coff |-> coff,
                     import |-> NoImport] >>]

\* The object refers to f and g; f is in a member of the first library,
\* which carries the section data, g in a member of the second library.
DrectveWorld(section_data, names) ==
    World("Amd64",
          << [path |-> "file1", coff |-> Referrer("Amd64", <<"f", "g">>)] >>,
          names,
          [p \in LibPaths |->
              IF p = "lib1" THEN ArchiveWith("f", DefinerOf("f", section_data))
              ELSE ArchiveWith("g", DefinerOf("g", ""))],
          {}, FALSE)

DrectveWorlds ==
    { DrectveWorld(DrectveData(ds, closed), <<"one">>) :
        ds \in DirectiveLists, closed \in BOOLEAN }
    \cup { DrectveWorld(DrectveData(<<d>>, TRUE), <<"one", "two">>) :
             d \in Directives }

\* --- archive symbol maps that list a name more than once -----------------

MaxIndex == 3

\* The entries a symbol map is made of: f in the first and in the second
\* member, g in the third.
IndexEntries ==
    { [name |-> "f", offset |-> 1], [name |-> "f", offset |-> 2],
      [name |-> "g", offset |-> 3] }

\* An archive of three members, the first two define f and the third g,
\* with the symbol map index.
IndexedArchive(index) ==
    [symbols |-> index,
     members |-> [k \in 1..3 |->
                    [path |-> IF k = 1 THEN "m1.o" ELSE IF k = 2 THEN "m2.o"
                              ELSE "m3.o",
                     kind |-> "Coff",
                     coff |-> DefinerOf(IF k = 3 THEN "g" ELSE "f", ""),
                     import |-> NoImport]]]

\* An object that refers to the names refs, linked against that archive.
IndexWorld(refs, index) ==
    World("Amd64", << [path |-> "file1", coff |-> Referrer("Amd64", refs)] >>,
          <<"one">>,
          [p \in LibPaths |-> IF p = "lib1" THEN IndexedArchive(index)
                              ELSE NoArchive],
          {}, FALSE)

IndexWorlds ==
    { IndexWorld(refs, index) :
        refs \in { <<"f">>, <<"f", "g">>, <<"g", "f">>, <<"h", "f">> },
        index \in SeqsOf(IndexEntries, 1, MaxIndex) }

\* --- sections of different alignments -------------------------------------

\* The alignment fields (0 for none, else log2 of the bytes plus 1) and the
\* sizes of the .data sections.
AlignCodes == {0, 1, 3, 5}
AlignSizes == {3, 8}

\* An object with one .data section of that alignment and size.
AlignObject(align, size) ==
    Coff("Amd64",
         << Sec(".data",
                [NoFlags EXCEPT !.CntInitializedData = TRUE, !.MemRead = TRUE,
                                !.MemWrite = TRUE, !.align = align],
                Zeros(size), <<>>) >>,
         << SectSym(".data", 1, 0, 0, 0) >>)

AlignWorld(objects) ==
    World("Amd64",
          [i \in 1..Len(objects) |->
              [path |-> InputPaths[i],
               coff |-> AlignObject(objects[i][1], objects[i][2])]],
          <<>>, [p \in LibPaths |-> NoArchive], {}, FALSE)

AlignWorlds ==
    { AlignWorld(objects) : objects \in SeqsOf(AlignCodes \X AlignSizes, 1, 2) }

\* --- compiler identification strings ------------------------------------

\* An object with code and an .rdata$zzz section of two equal bytes, the
\* identification string of its compiler, without relocations and without
\* a checksum in its auxiliary record.
IdentObject(ident) ==
    Coff("Amd64",
         << Sec(".text", TextFlags, Zeros(8), <<>>),
            Sec(".rdata$zzz", RdataFlags, << ident, ident >>, <<>>) >>,
         << SectSym(".text", 1, 0, 0, 0),
            SectSym(".rdata$zzz", 2, 0, 0, 0) >>)

IdentWorld(idents) ==
    World("Amd64",
          [i \in 1..Len(idents) |->
              [path |-> InputPaths[i], coff |-> IdentObject(idents[i])]],
          <<>>, [p \in LibPaths |-> NoArchive], {}, FALSE)

IdentWorlds == { IdentWorld(idents) : idents \in SeqsOf({1, 2}, 1, MaxIdents) }

Worlds ==
    ResolveWorlds \cup {DuplicateWorld} \cup ComdatWorlds \cup AssocWorlds
    \cup CommonWorlds \cup RelocWorlds \cup ImportRelocWorlds \cup IdentWorlds
    \cup MergeWorlds \cup ApiWorlds \cup DrectveWorlds
    \cup SharedCommonWorlds \cup KeptRootWorlds
    \cup KindWorlds \cup BothNameWorlds
    \cup RepeatedInputWorlds \cup IndexWorlds
    \cup AlignWorlds \cup MixedWorlds

\* ------------------------------------------------------------------------
\* The specification
\* ------------------------------------------------------------------------

Init ==
    /\ world \in Worlds
    /\ pc = "setup"
    /\ graph = LinkGraph_new(world.target_arch)
    /\ archives = [p \in LibPaths |-> CachedSymbolMap_new]
    /\ link_libraries = <<>>
    /\ library_names = <<>>
    /\ drectve_queue = <<>>
    /\ symbol_search_buffer = <<>>
    /\ undefined_symbols = <<>>
    /\ setup_errors = <<>>
    /\ last = [symbol |-> "", api |-> "", probes |-> <<>>, resolved |-> FALSE]
    /\ sections = <<>>
    /\ output = Output_empty
    /\ result = [kind |-> "Running", errors |-> <<>>]

Next ==
    \/ Setup
    \/ Snapshot
    \/ ResolveSymbol
    \/ Finish
    \/ MergeBss
    \/ ApplyImportThunks
    \/ HandleComdats
    \/ AllocateCommons
    \/ Layout
    \/ ReserveRelocations
    \/ ReserveSymbols
    \/ WriteOutput
    \/ Fixup

Spec == Init /\ [][Next]_vars

\* The positions of the thread in link() and in BuiltLinkGraph::link.
PcValues ==
    { "setup", "resolve", "symbol", "finish", "merge_bss", "apply_import_thunks",
      "handle_comdats", "allocate_commons", "layout", "reserve_relocations",
      "reserve_symbols", "write", "fixup", "done" }

\* The thread moves on: a call that has not returned leaves its position.
Advance == pc # "done" /\ pc' \in PcValues

\* link() runs as one thread, and a step that can be taken is taken.  Every
\* step of Next leaves the position, except a turn of the symbol loop with
\* names left in the finite buffer, and a step is possible exactly until
\* link() has returned: weak fairness of Next is weak fairness of leaving
\* the position.
FairSpec == Spec /\ WF_pc(Advance)

\* ------------------------------------------------------------------------
\* Properties
\* ------------------------------------------------------------------------

\* C1: LinkGraph::finish succeeds iff no external symbol is undefined (no
\* definition edge and no import edge), duplicate (two or more definitions
\* without a COMDAT selection) or multiply defined (COMDAT selection
\* violated); otherwise it returns exactly one error for every offending
\* external symbol, all of them, and the driver returns a Symbol error and
\* produces no output.
C1_FinishReportsEveryOffender ==
    [][ (Finish /\ setup_errors = <<>>) =>
        LET offending ==
                { s \in Range(graph.external_symbols) :
                    \/ definitions(graph, s) = <<>> /\ imports(graph, s) = <<>>
                    \/ Cardinality({ i \in 1..Len(definitions(graph, s)) :
                          graph.defs[definitions(graph, s)[i]].weight.selection = 0 }) >= 2
                    \/ is_multiply_defined(graph, s) }
        IN /\ (finish(graph) = <<>>) <=> (offending = {})
           /\ offending = {} => result'.kind # "Symbol" /\ pc' # "done"
           /\ offending # {} =>
                /\ result'.kind = "Symbol"
                /\ Len(result'.errors) = Cardinality(offending)
                /\ \A s \in offending :
                      \E i \in 1..Len(result'.errors) : result'.errors[i].symbol = s
                /\ pc' = "done"
                /\ output' = Output_empty
                /\ sections' = <<>>
      ]_vars

\* C1 witness: a link that ended with a Symbol error naming two symbols.
C1_Witness ==
    pc = "done" /\ result.kind = "Symbol" /\ Len(result.errors) >= 2

\* C2: the symbol-resolution loop terminates for any finite inputs: link()
\* leaves the loop and returns, also when an archive's symbol index names a
\* member that is already in the graph or whose ingestion does not define
\* the requested symbol.
C2_ResolutionTerminates == <>(pc = "done")

\* C3: each undefined symbol is offered to the API source first: if the API
\* provides it the symbol gets an import edge to the API library node and no
\* archive is consulted; otherwise the opened archives are probed in
\* insertion order and, absent errors, only the first archive that has the
\* symbol contributes a member its symbol map lists for the name, later
\* archives are not used.
C3_ApiFirstThenFirstArchive ==
    [][ ResolveSymbol =>
        LET name == Head(symbol_search_buffer)
            symbol == external_get(graph, name)
            provided ==
                (IF world.target_arch = "I386"
                 THEN trim_start_matches(name, "__imp__")
                 ELSE trim_start_matches(name, "__imp_")) \in world.api.symbols
            libs == link_libraries'
            probes == last'.probes
            index(k) == world.archives[libs[k]].symbols
            hits == { k \in 1..Len(libs) :
                        \E i \in 1..Len(index(k)) : index(k)[i].name = name }
            clean == \A i \in 1..Len(probes) :
                        probes[i].outcome \in {"NotFound", "Coff", "Import"}
        IN IF provided
           THEN /\ graph'.api_node # 0
                /\ Len(imports(graph', symbol)) = Len(imports(graph, symbol)) + 1
                /\ \A i \in 1..Len(imports(graph', symbol)) :
                      i > Len(imports(graph, symbol)) =>
                         graph'.imps[imports(graph', symbol)[i]].target
                            = graph'.api_node
                /\ probes = <<>>
                /\ archives' = archives
                /\ graph'.coff_nodes = graph.coff_nodes
                /\ graph'.library_nodes = graph.library_nodes
           ELSE /\ Len(probes) <= Len(libs)
                /\ \A i \in 1..Len(probes) : probes[i].library = libs[i]
                /\ clean =>
                     IF hits = {}
                     THEN /\ Len(probes) = Len(libs)
                          /\ graph' = graph
                          /\ ~last'.resolved
                     ELSE LET first == CHOOSE k \in hits : \A j \in hits : k <= j
                              entries == { i \in 1..Len(index(first)) :
                                             index(first)[i].name = name }
                              member(i) == world.archives[libs[first]]
                                              .members[index(first)[i].offset]
                          IN /\ Len(probes) = first
                             /\ \A i \in 1..(first - 1) :
                                   probes[i].outcome = "NotFound"
                             /\ last'.resolved
                             /\ \E i \in entries :
                                IF member(i).kind = "Coff"
                                THEN /\ probes[first].outcome = "Coff"
                                     /\ graph' = add_coff(graph, libs[first],
                                                    member(i).path, member(i).coff).g
                                ELSE /\ probes[first].outcome = "Import"
                                     /\ graph' = add_library_import(graph, name,
                                                    member(i).import).g
      ]_vars

\* C3 witness: a symbol the API does not provide was resolved from the
\* first of two opened archives, and the second one has it too.
C3_Witness ==
    /\ last.api = "NotFound"
    /\ last.resolved
    /\ Len(link_libraries) = 2
    /\ Len(last.probes) = 1
    /\ \E i \in 1..Len(world.archives[link_libraries[2]].symbols) :
          world.archives[link_libraries[2]].symbols[i].name = last.symbol

C5_KeepOneLargest ==
    [][ HandleComdats =>
        \A s \in Range(graph.external_symbols) :
           LET ds == definitions(graph, s)
               section(i) == graph.defs[ds[i]].target
               kept == { i \in 1..Len(ds) : ~graph'.sects[section(i)].discarded }
           IN (/\ ds # <<>>
               /\ graph.defs[ds[1]].weight.selection = Largest
               /\ \A i \in 1..Len(ds) : ~graph.sects[section(i)].discarded)
              => /\ Cardinality(kept) = 1
                 /\ \A i \in kept : \A j \in 1..Len(ds) :
                       data_len(graph.sects[section(j)].data)
                          <= data_len(graph.sects[section(i)].data)
      ]_vars

\* C6: after COMDAT resolution every section reachable over associative
\* edges from a root section has the discarded flag of that root, whatever
\* caused the root to be discarded.
C6_DependentsFollowRoot ==
    pc \in {"allocate_commons", "layout", "reserve_relocations",
            "reserve_symbols", "write", "fixup"} =>
        \A e \in 1..Len(graph.assocs) :
            graph.sects[graph.assocs[e].target].discarded
                = graph.sects[graph.assocs[e].source].discarded

\* C7: after COMMON allocation, for COMMON symbols a and b, size(a) < size(b)
\* implies offset(a) <= offset(b); every offset is a multiple of the COMMON
\* section's alignment, 8 on the 64-bit target and 4 on the 32-bit one; the
\* ranges [offset, offset + size) are pairwise disjoint; and the size of the
\* COMMON section is the end of the last range.
C7_CommonAllocation ==
    [][ ((AllocateCommons \/ MergeBss) /\ graph.common_section # 0) =>
        LET common == graph.common_section
            commons == { d \in 1..Len(graph.defs) : graph.defs[d].target = common }
            size(d) == graph.defs[d].weight.address
            offset(d) == graph'.defs[d].weight.address
            align == IF world.target_arch = "Amd64" THEN 8 ELSE 4
        IN /\ \A a, b \in commons : size(a) < size(b) => offset(a) <= offset(b)
           /\ \A d \in commons : offset(d) % align = 0
           /\ \A a, b \in commons :
                 a # b => \/ offset(a) + size(a) <= offset(b)
                          \/ offset(b) + size(b) <= offset(a)
           /\ \A d \in commons : graph'.defs[d].target = common
           /\ \E d \in commons :
                 /\ data_len(graph'.sects[common].data) = offset(d) + size(d)
                 /\ \A a \in commons : offset(a) + size(a) <= offset(d) + size(d)
      ]_vars

\* C7 witness: two COMMON symbols of size 8 were placed at 0 and 8 of the
\* COMMON section, which belongs to .bss.
C7_Witness ==
    /\ pc = "layout"
    /\ \E k \in 1..Len(sections) :
          /\ sections[k].name = ".bss"
          /\ \E n \in Range(sections[k].nodes) :
                /\ graph.sects[n].name = "COMMON data"
                /\ data_len(graph.sects[n].data) = 16
                /\ { graph.defs[d].weight.address :
                       d \in { x \in 1..Len(graph.defs) : graph.defs[x].target = n } }
                      = {0, 8}

\* C8 (as stated): for every imported symbol that receives a thunk, with
\* thunk index i in collection order: the symbol gains exactly one
\* definition, at offset 8*i of the new .text$zzz section, whose 8 bytes
\* there are FF 25 00 00 00 00 90 90; a new external symbol
\* __imp_<import-name> is created; the section has a relocation at 8*i+2
\* (REL32 on 64-bit, DIR32 on 32-bit) that targets the new symbol; the
\* import edge is moved to the new symbol and the library's import list
\* keeps its length and order.  In the output the symbol's value + 2 is the
\* relocation's virtual address and the relocation's target is the entry
\* named __imp_<dll without .dll>$<import-name>, for every thunk.
C8_ThunkTargetsLibraryName ==
    (pc = "done" /\ result.kind = "Ok") =>
        \A c \in 1..Len(graph.sects) : graph.sects[c].name = ".text$zzz" =>
        \A d \in 1..Len(graph.defs) : graph.defs[d].target = c =>
            LET s      == graph.defs[d].source
                value  == output.symbols[graph.syms[s].table_index + 1].value
                r      == CHOOSE x \in 1..Len(graph.rels) :
                             /\ graph.rels[x].source = c
                             /\ graph.rels[x].weight.virtual_address
                                   = graph.defs[d].weight.address + 2
                e      == imports(graph, graph.rels[r].target)[1]
                dll    == graph.libs[graph.imps[e].target].name
                stem   == IF Len(dll) > 4 /\ SubSeq(dll, Len(dll) - 3, Len(dll)) = ".dll"
                          THEN SubSeq(dll, 1, Len(dll) - 4) ELSE dll
                wanted == "__imp_" \o stem \o "$" \o graph.imps[e].weight.import_name
            IN \E k \in 1..Len(output.sections) :
                \E x \in 1..Len(output.sections[k].relocations) :
                   /\ output.sections[k].relocations[x].virtual_address = value + 2
                   /\ output.symbols[output.sections[k].relocations[x].symbol + 1].name
                         = wanted

\* C8 (amended): the same, but the relocation's target is the entry named
\* __imp_<dll without .dll>$<import-name> when the import comes from an
\* import library, and __imp_<import-name> when it comes from the API.
C8_ThunkPerImport ==
    /\ [][ ApplyImportThunks =>
           LET c == Len(graph.sects) + 1
               libraries == (IF graph.api_node # 0 THEN <<graph.api_node>> ELSE <<>>)
                            \o graph.library_nodes
               list(g, l) == iter(g.imps, g.libs[l].import_edges, "next_incoming")
               thunked == { s \in 1..Len(graph.syms) :
                              \E d \in 1..Len(graph'.defs) :
                                 d > Len(graph.defs) /\ graph'.defs[d].source = s }
               offset(s) == graph'.defs[definitions(graph', s)[Len(definitions(graph', s))]]
                               .weight.address
               place(s) == CHOOSE p \in 1..Len(libraries) * (Len(graph.imps) + 1) :
                              \E k \in 1..Len(libraries) :
                                 \E j \in 1..Len(list(graph, libraries[k])) :
                                    /\ graph.imps[list(graph, libraries[k])[j]].source = s
                                    /\ p = (k - 1) * (Len(graph.imps) + 1) + j
           IN /\ \A l \in 1..Len(graph.libs) : list(graph', l) = list(graph, l)
              /\ thunked # {} =>
                   /\ Len(graph'.sects) = c
                   /\ graph'.sects[c].name = ".text$zzz"
                   /\ data_len(graph'.sects[c].data) = 8 * Cardinality(thunked)
              /\ { offset(s) : s \in thunked }
                    = { 8 * i : i \in 0..(Cardinality(thunked) - 1) }
              /\ \A s, t \in thunked : place(s) < place(t) => offset(s) < offset(t)
              /\ \A s \in thunked :
                   LET e == imports(graph, s)[1]
                       moved == { t \in 1..Len(graph'.syms) : imports(graph', t) = <<e>> }
                   IN /\ Len(definitions(graph', s)) = Len(definitions(graph, s)) + 1
                      /\ graph'.defs[definitions(graph', s)[Len(definitions(graph', s))]]
                            .target = c
                      /\ SubSeq(graph'.sects[c].data.bytes, offset(s) + 1, offset(s) + 8)
                            = <<255, 37, 0, 0, 0, 0, 144, 144>>
                      /\ imports(graph', s) = <<>>
                      /\ Cardinality(moved) = 1
                      /\ \A t \in moved :
                            /\ t > Len(graph.syms)
                            /\ graph'.syms[t].name
                                  = "__imp_" \o graph.imps[e].weight.import_name
                            /\ graph'.syms[t].storage_class = "External"
                            /\ \E r \in 1..Len(graph'.rels) :
                                  /\ r > Len(graph.rels)
                                  /\ graph'.rels[r].source = c
                                  /\ graph'.rels[r].target = t
                                  /\ graph'.rels[r].weight.virtual_address = offset(s) + 2
                                  /\ graph'.rels[r].weight.typ
                                        = IF world.target_arch = "Amd64" THEN "REL32"
                                          ELSE "DIR32"
         ]_vars
    /\ []((pc = "done" /\ result.kind = "Ok") =>
           \A c \in 1..Len(graph.sects) : graph.sects[c].name = ".text$zzz" =>
           \A d \in 1..Len(graph.defs) : graph.defs[d].target = c =>
               LET s      == graph.defs[d].source
                   value  == output.symbols[graph.syms[s].table_index + 1].value
                   r      == CHOOSE x \in 1..Len(graph.rels) :
                                /\ graph.rels[x].source = c
                                /\ graph.rels[x].weight.virtual_address
                                      = graph.defs[d].weight.address + 2
                   e      == imports(graph, graph.rels[r].target)[1]
                   dll    == graph.libs[graph.imps[e].target].name
                   stem   == IF Len(dll) > 4
                                /\ SubSeq(dll, Len(dll) - 3, Len(dll)) = ".dll"
                             THEN SubSeq(dll, 1, Len(dll) - 4) ELSE dll
                   wanted == IF graph.imps[e].target = graph.api_node
                             THEN "__imp_" \o graph.imps[e].weight.import_name
                             ELSE "__imp_" \o stem \o "$"
                                  \o graph.imps[e].weight.import_name
               IN \E k \in 1..Len(output.sections) :
                   \E x \in 1..Len(output.sections[k].relocations) :
                      /\ output.sections[k].relocations[x].virtual_address = value + 2
                      /\ output.symbols[output.sections[k].relocations[x].symbol + 1].name
                            = wanted)

\* C8 witness: a link with two thunks, for imports of an import library,
\* has finished.
C8_Witness ==
    /\ pc = "done"
    /\ result.kind = "Ok"
    /\ graph.library_nodes # <<>>
    /\ \E c \in 1..Len(graph.sects) :
          /\ graph.sects[c].name = ".text$zzz"
          /\ data_len(graph.sects[c].data) = 16
    /\ \E k \in 1..Len(output.symbols) : output.symbols[k].name = "__imp_KERNEL32$g"

\* C9: for a relocation at output address P whose target is a non-section
\* symbol with a surviving definition at output address S in the same
\* output section group, no relocation record is emitted and the 4 bytes at
\* P, read little-endian after linking, are (A + S - (P + 4)) mod 2^32,
\* where A is the little-endian value of those bytes in the input.
C9_SameGroupRelative ==
    (pc = "done" /\ result.kind = "Ok") =>
        \A k \in 1..Len(sections) : \A n \in Range(sections[k].nodes) :
        \A r \in 1..Len(graph.rels) :
            LET target == graph.rels[r].target
                d == surviving_definition(graph, target)
                P == graph.sects[n].virtual_address
                     + graph.rels[r].weight.virtual_address
                S == graph.sects[graph.defs[d].target].virtual_address
                     + graph.defs[d].weight.address
                A == SubSeq(graph.sects[n].data.bytes,
                            graph.rels[r].weight.virtual_address + 1,
                            graph.rels[r].weight.virtual_address + 4)
            IN (/\ graph.rels[r].source = n
                /\ ~is_section_symbol(graph, target)
                /\ d # 0
                /\ group_name(graph.sects[graph.defs[d].target].name) = sections[k].name)
               => /\ \A x \in 1..Len(output.sections[k].relocations) :
                        output.sections[k].relocations[x].virtual_address # P
                  /\ from_le_bytes(SubSeq(output.sections[k].data, P + 1, P + 4))
                        = wrapping_add(from_le_bytes(A),
                                       wrapping_sub(u32(S), u32(P + 4)))

\* C10: for a relocation whose target is a section symbol defined in a
\* different output section group, the relocation record is emitted and
\* the little-endian word at the relocation offset is increased by the
\* virtual address that layout gave the target's input section; when that
\* addition overflows 32 bits the link fails with a relocation-overflow
\* error instead of wrapping.
C10_SectionTargetShifted ==
    (pc = "done" /\ result.kind \in {"Ok", "Graph"}) =>
        \A k \in 1..Len(sections) : \A n \in Range(sections[k].nodes) :
        \A r \in 1..Len(graph.rels) :
            LET target == graph.rels[r].target
                d == surviving_definition(graph, target)
                P == graph.sects[n].virtual_address
                     + graph.rels[r].weight.virtual_address
                A == SubSeq(graph.sects[n].data.bytes,
                            graph.rels[r].weight.virtual_address + 1,
                            graph.rels[r].weight.virtual_address + 4)
                sum == add_with_carry(
                          from_le_bytes(A),
                          u32(graph.sects[graph.defs[d].target].virtual_address))
            IN (/\ graph.rels[r].source = n
                /\ is_section_symbol(graph, target)
                /\ d # 0
                /\ group_name(graph.sects[graph.defs[d].target].name) # sections[k].name
                /\ graph.rels[r].weight.virtual_address + 4
                      <= data_len(graph.sects[n].data))
               => IF sum.carry = 0
                  THEN result.kind = "Ok" =>
                         /\ \E x \in 1..Len(output.sections[k].relocations) :
                               /\ output.sections[k].relocations[x].virtual_address = P
                               /\ output.symbols[output.sections[k].relocations[x].symbol + 1]
                                     .name = group_name(graph.sects[graph.defs[d].target].name)
                         /\ from_le_bytes(SubSeq(output.sections[k].data, P + 1, P + 4))
                               = sum.value
                  ELSE /\ result.kind = "Graph"
                       /\ result.errors = << [kind |-> "RelocationOverflow",
                                              symbol |-> target] >>

\* C10 witness: the word 0 of a relocation against the section symbol of
\* .rdata became 16, the address of the target section in the output.
C10_Witness ==
    /\ pc = "done"
    /\ result.kind = "Ok"
    /\ \E k \in 1..Len(output.sections) :
          /\ output.sections[k].name = ".text"
          /\ \E x \in 1..Len(output.sections[k].relocations) :
                LET rec == output.sections[k].relocations[x] IN
                /\ output.symbols[rec.symbol + 1].kind = "Section"
                /\ output.symbols[rec.symbol + 1].name = ".rdata"
                /\ SubSeq(output.sections[k].data, rec.virtual_address + 1,
                          rec.virtual_address + 4) = <<16, 0, 0, 0>>

\* C11: link() fails with a RelocationBounds error whenever a relocation of
\* a section that is a member of an output section has offset + 4 greater
\* than the data length of that section, whatever its target is; in every
\* successful link each emitted relocation lies, with its 4 bytes, within
\* the data of its output section.
C11_OutOfBoundsFails ==
    (pc = "done" /\ result.kind = "Ok") =>
        /\ \A k \in 1..Len(sections) : \A n \in Range(sections[k].nodes) :
           \A r \in 1..Len(graph.rels) :
              graph.rels[r].source = n =>
                 graph.rels[r].weight.virtual_address + 4
                    <= data_len(graph.sects[n].data)
        /\ \A k \in 1..Len(output.sections) :
           \A x \in 1..Len(output.sections[k].relocations) :
              output.sections[k].relocations[x].virtual_address + 4
                 <= output.sections[k].size_of_raw_data

\* C12: in every successful link each relocation of a member of an output
\* section that is not resolved inside its group has one record, and the
\* symbol field of the record is the index of a written symbol table entry,
\* the entry of its target: for a section symbol or a label the section
\* entry of the output section that holds the target's section, for any
\* other defined symbol its own entry (name, value, section number), for an
\* imported symbol its import entry, the one written for its import edge;
\* there are no other records.
C12_RecordNamesTargetEntry ==
    (pc = "done" /\ result.kind = "Ok") =>
        \A k \in 1..Len(sections) :
           LET emitted == { r \in 1..Len(graph.rels) :
                              /\ graph.rels[r].source \in Range(sections[k].nodes)
                              /\ ~same_group(graph, sections[k].name, r) }
               records == output.sections[k].relocations
               holder(n) == CHOOSE j \in 0..Len(sections) :
                               \/ j > 0 /\ n \in Range(sections[j].nodes)
                               \/ j = 0 /\ \A i \in 1..Len(sections) :
                                              n \notin Range(sections[i].nodes)
           IN /\ Len(records) = Cardinality(emitted)
              /\ \A r \in emitted :
                   LET target == graph.rels[r].target
                       d == surviving_definition(graph, target)
                       at == graph.sects[graph.rels[r].source].virtual_address
                             + graph.rels[r].weight.virtual_address
                   IN \E x \in 1..Len(records) :
                        /\ records[x].virtual_address = at
                        /\ records[x].symbol \in 0..(Len(output.symbols) - 1)
                        /\ LET entry == output.symbols[records[x].symbol + 1] IN
                           IF d = 0
                           THEN /\ entry.kind = "Import"
                                /\ imports(graph, target) # <<>>
                                /\ entry.name = graph.syms[target].output_name
                                /\ \E p \in 1..Len(import_walk(graph,
                                                  import_libraries(graph), 1)) :
                                      /\ graph.imps[import_walk(graph,
                                            import_libraries(graph), 1)[p]].source
                                            = target
                                      /\ records[x].symbol + 1
                                            = Len(output.symbols)
                                              - Len(import_walk(graph,
                                                    import_libraries(graph), 1))
                                              + p
                           ELSE IF is_section_symbol(graph, target)
                                   \/ is_label(graph, target)
                           THEN /\ entry.kind = "Section"
                                /\ entry.section_number
                                      = holder(graph.defs[d].target)
                           ELSE /\ entry.kind = "Defined"
                                /\ entry.name = graph.syms[target].name
                                /\ entry.section_number
                                      = holder(graph.defs[d].target)
                                /\ entry.value
                                      = graph.defs[d].weight.address
                                        + graph.sects[graph.defs[d].target]
                                             .virtual_address

\* C12 witness: a successful link emitted a record against the entry of the
\* variable d, defined in .rdata, and the entry is the fourth one of the
\* table or a later one.
C12_Witness ==
    /\ pc = "done"
    /\ result.kind = "Ok"
    /\ \E k \in 1..Len(output.sections) :
          \E x \in 1..Len(output.sections[k].relocations) :
             /\ output.sections[k].relocations[x].symbol >= 3
             /\ output.symbols[output.sections[k].relocations[x].symbol + 1].name = "d"

\* C13: no section header of a linked output has the COMDAT flag, whether
\* its characteristics were taken from the first kept member or were preset
\* (.bss of the COMMON symbols, .data of the merge); the headers carry none
\* from the layout on.
C13_NoComdatHeader ==
    /\ \A k \in 1..Len(output.sections) :
          ~output.sections[k].characteristics.LnkComdat
    /\ pc \in {"reserve_relocations", "reserve_symbols", "write", "fixup"} =>
          \A k \in 1..Len(sections) :
             ~sections[k].header.characteristics.LnkComdat

\* C13 witness: a linked output has a section whose first kept member is a
\* COMDAT section.
C13_Witness ==
    /\ pc = "done"
    /\ result.kind = "Ok"
    /\ \E k \in 1..Len(sections) :
          /\ graph.sects[Head(sections[k].nodes)].characteristics.LnkComdat
          /\ output.sections[k].name = sections[k].name

\* C14: of the .rdata$zzz input sections that have no relocations and the
\* same checksum at most one is a member of the output section .rdata,
\* however many there are and whatever lies between them.
C14_OneOfEachChecksum ==
    \A k \in 1..Len(sections) :
       sections[k].name = ".rdata" =>
          \A i, j \in 1..Len(sections[k].nodes) :
             ( /\ i < j
               /\ graph.sects[sections[k].nodes[i]].name = ".rdata$zzz"
               /\ graph.sects[sections[k].nodes[j]].name = ".rdata$zzz"
               /\ is_empty(graph.sects[sections[k].nodes[i]].relocation_edges)
               /\ is_empty(graph.sects[sections[k].nodes[j]].relocation_edges) )
             => graph.sects[sections[k].nodes[i]].checksum
                   # graph.sects[sections[k].nodes[j]].checksum

\* C15: a successful link with merge_bss has no .bss section of nonzero
\* size; the members of .data are the kept members of the group .data
\* followed by every kept .bss member and the COMMON section; the written
\* .data is initialized, its size covers every member, and the bytes of the
\* former .bss members and of the COMMON section are zero.
C15_BssMergedIntoData ==
    (pc = "done" /\ result.kind = "Ok" /\ world.merge_bss) =>
        LET moved == { n \in 1..Len(graph.sects) :
                         /\ ~graph.sects[n].discarded
                         /\ \/ group_name(graph.sects[n].name) = ".bss"
                            \/ /\ graph.sects[n].name = "COMMON data"
                               /\ data_len(graph.sects[n].data) > 0 }
            k == section_index(sections, ".data")
        IN /\ \A j \in 1..Len(output.sections) :
                output.sections[j].name = ".bss" =>
                   output.sections[j].size_of_raw_data = 0
           /\ moved # {} =>
                /\ k # 0
                /\ moved \subseteq Range(sections[k].nodes)
                /\ \A i, j \in 1..Len(sections[k].nodes) :
                      ( /\ sections[k].nodes[i] \in moved
                        /\ sections[k].nodes[j] \notin moved ) => j < i
                /\ output.sections[k].name = ".data"
                /\ output.sections[k].characteristics.CntInitializedData
                /\ ~output.sections[k].characteristics.CntUninitializedData
                /\ Len(output.sections[k].data) = output.sections[k].size_of_raw_data
                /\ \A n \in Range(sections[k].nodes) :
                      graph.sects[n].virtual_address + data_len(graph.sects[n].data)
                         <= output.sections[k].size_of_raw_data
                /\ \A n \in moved :
                   \A b \in 1..data_len(graph.sects[n].data) :
                      output.sections[k].data[graph.sects[n].virtual_address + b] = 0

\* C16: the API lookup of a resolution turn matches, for a roster name N,
\* the symbols _N and __imp__N on the 32-bit target and N and __imp_N on
\* the 64-bit target: the symbol then gets an import from the library
\* "Beacon API" under the import name N; every other symbol is not found in
\* the API.
C16_RosterLookup ==
    [][ ResolveSymbol =>
        LET name == Head(symbol_search_buffer)
            symbol == external_get(graph, name)
            matches == { N \in world.api.symbols :
                           IF world.api.architecture = "I386"
                           THEN name \in { "_" \o N, "__imp__" \o N }
                           ELSE name \in { N, "__imp_" \o N } }
        IN IF matches # {}
           THEN /\ last'.api = "Ok"
                /\ graph'.api_node # 0
                /\ graph'.libs[graph'.api_node].name = "Beacon API"
                /\ Len(imports(graph', symbol)) = Len(imports(graph, symbol)) + 1
                /\ LET e == imports(graph', symbol)[Len(imports(graph', symbol))]
                   IN /\ graph'.imps[e].target = graph'.api_node
                      /\ graph'.imps[e].weight.import_name \in matches
           ELSE /\ last'.api = "NotFound"
                /\ graph'.api_node = graph.api_node
      ]_vars

\* C17: the libraries read from the .drectve section of a member that is
\* pulled into the link are, in order, exactly the values of its directives
\* with the flag DEFAULTLIB in any case, after "/" or "-", bare or quoted;
\* the other directives, with or without a value, hide and alter none.
C17_DefaultLibValues ==
    [][ (ResolveSymbol /\ graph'.coff_nodes # graph.coff_nodes) =>
        \A p \in 1..Len(last'.probes) :
           last'.probes[p].outcome = "Coff" =>
              LET member == world.archives[last'.probes[p].library].members[1]
              IN \A ds \in DirectiveLists : \A closed \in BOOLEAN :
                    member.coff.drectve = DrectveData(ds, closed) =>
                       parse_drectve_libraries(member.coff) = DefaultLibs(ds)
      ]_vars

\* C18: when a resolution turn pulls a member COFF out of an archive, every
\* library that the directives of the member name and that is not opened is
\* on the .drectve queue after the turn; a turn that goes to the archives
\* with libraries on the queue opens each one that the search path holds,
\* so that it is among the opened archives afterwards; no archive is opened
\* twice.
C18_DirectiveLibrariesOpened ==
    [][ ResolveSymbol =>
        LET name == Head(symbol_search_buffer)
            pulled == { p \in 1..Len(last'.probes) :
                          last'.probes[p].outcome = "Coff" }
            archive(p) == world.archives[last'.probes[p].library]
            entry(p) == CHOOSE i \in 1..Len(archive(p).symbols) :
                           /\ archive(p).symbols[i].name = name
                           /\ \A j \in 1..(i - 1) :
                                 archive(p).symbols[j].name # name
            member(p) == archive(p).members[archive(p).symbols[entry(p)].offset]
            named(p) == parse_drectve_libraries(member(p).coff)
        IN /\ \A p \in pulled : \A d \in 1..Len(named(p)) :
                 trim_end_matches(named(p)[d], ".lib") \notin Range(library_names')
                    => \E q \in 1..Len(drectve_queue') :
                          drectve_queue'[q].library
                             = trim_end_matches(named(p)[d], ".lib")
           /\ last'.api # "Ok" =>
                 \A q \in 1..Len(drectve_queue) :
                    find_library(world.files, drectve_queue[q].library) # ""
                       => find_library(world.files, drectve_queue[q].library)
                             \in Range(link_libraries')
           /\ \A i, j \in 1..Len(link_libraries') :
                 link_libraries'[i] = link_libraries'[j] => i = j
      ]_vars

\* C19: after COMMON allocation every COMMON symbol has exactly one
\* definition edge, and the walk over the definition list of the COMMON
\* section ends and meets exactly these edges, one for each symbol and each
\* once, in ascending order of the sizes.
C19_CommonListMirrorsSymbols ==
    [][ ((AllocateCommons \/ MergeBss) /\ graph.common_section # 0) =>
        LET common == graph.common_section
            declared == { graph.defs[d].source :
                            d \in { x \in 1..Len(graph.defs) :
                                      graph.defs[x].target = common } }
            size(s) == max_value(graph, s)
            list == graph'.sects[common].definition_edges
            walk == iter(graph'.defs, list, "next_incoming")
        IN /\ \A s \in declared : Len(definitions(graph', s)) = 1
           /\ IterTerminates(graph'.defs, list, "next_incoming")
           /\ Len(walk) = Cardinality(declared)
           /\ { graph'.defs[walk[i]].source : i \in 1..Len(walk) } = declared
           /\ \A i \in 1..Len(walk) :
                 definitions(graph', graph'.defs[walk[i]].source) = << walk[i] >>
           /\ \A i, j \in 1..Len(walk) :
                 i < j => size(graph'.defs[walk[i]].source)
                             <= size(graph'.defs[walk[j]].source)
      ]_vars

\* C20: a link in which several inputs declare the same COMMON symbol, and
\* in which nothing else is wrong, succeeds, and the symbol has one
\* definition, in the COMMON section, with a slot as large as the largest
\* size declared for it in which no other COMMON symbol starts.
C20_SharedCommonLargest ==
    pc = "done" =>
        \A name \in Range(CommonNames) :
           LET decls == { ik \in (1..Len(world.inputs)) \X (1..MaxCommons + 2) :
                            /\ ik[2] <= Len(world.inputs[ik[1]].coff.symbols)
                            /\ world.inputs[ik[1]].coff.symbols[ik[2]].name = name
                            /\ sym_is_common(world.inputs[ik[1]].coff.symbols[ik[2]]) }
               size(ik) == world.inputs[ik[1]].coff.symbols[ik[2]].value
               largest == CHOOSE v \in { size(ik) : ik \in decls } :
                             \A ik \in decls : size(ik) <= v
           IN Cardinality({ ik[1] : ik \in decls }) >= 2 =>
                 /\ result.kind = "Ok"
                 /\ LET ds == definitions(graph, external_get(graph, name))
                        common == graph.defs[ds[1]].target
                        offset == graph.defs[ds[1]].weight.address
                    IN /\ Len(ds) = 1
                       /\ graph.sects[common].name = "COMMON data"
                       /\ offset + largest <= data_len(graph.sects[common].data)
                       /\ \A d \in 1..Len(graph.defs) :
                             ( /\ d # ds[1]
                               /\ graph.defs[d].target = common
                               /\ definitions(graph, graph.defs[d].source) = <<d>> )
                             => \/ graph.defs[d].weight.address < offset
                                \/ graph.defs[d].weight.address >= offset + largest

\* C21: during output construction (from BuiltLinkGraph::new to the end of
\* BuiltLinkGraph::link) the discarded flag of a section only changes from
\* false to true: no step sets the flag of a discarded section back to
\* false, associative propagation from a kept root included.
C21_DiscardedMonotone ==
    [][ (pc \in {"finish", "merge_bss", "apply_import_thunks", "handle_comdats",
                "allocate_commons", "layout", "reserve_relocations",
                "reserve_symbols", "write", "fixup"}) =>
         (\A n \in DOMAIN graph.sects :
            graph.sects[n].discarded =>
                (n \in DOMAIN graph'.sects /\ graph'.sects[n].discarded))
      ]_vars

\* C22: once the discarded sections are settled, every symbol that has a
\* thunk (a definition in the synthesized .text$zzz section) is referenced
\* by at least one relocation of a section that is not discarded; a symbol
\* referenced only from discarded sections (debug, LnkRemove, losers of the
\* COMDAT resolution) has no thunk and adds no bytes to .text.
C22_ThunkOnlyForSurvivingReference ==
    pc \in {"allocate_commons", "layout", "reserve_relocations",
            "reserve_symbols", "write", "fixup", "done"} =>
        \A d \in 1..Len(graph.defs) :
            (/\ graph.sects[graph.defs[d].target].name = ".text$zzz"
             /\ graph.sects[graph.defs[d].target].coff = 0)
            => \E r \in Range(references(graph, graph.defs[d].source)) :
                  ~graph.sects[graph.rels[r].source].discarded

\* C23: in a finished output, a relocation of a surviving section has no
\* record in the relocation table exactly when its target has a surviving
\* definition in the same output section group, and every such relocation,
\* whatever its target is (a section symbol and a label included), is
\* resolved in place by the same-group rule: the 4 bytes at its address P
\* hold (A + S - (P + 4)) mod 2^32, A the value of the field in the input
\* and S the output address of the definition.
C23_OmittedIsPatched ==
    (pc = "done" /\ result.kind = "Ok") =>
        \A k \in 1..Len(sections) : \A n \in Range(sections[k].nodes) :
        \A r \in 1..Len(graph.rels) :
            LET target == graph.rels[r].target
                d == surviving_definition(graph, target)
                P == graph.sects[n].virtual_address
                     + graph.rels[r].weight.virtual_address
                S == graph.sects[graph.defs[d].target].virtual_address
                     + graph.defs[d].weight.address
                A == SubSeq(graph.sects[n].data.bytes,
                            graph.rels[r].weight.virtual_address + 1,
                            graph.rels[r].weight.virtual_address + 4)
                omitted == \A x \in 1..Len(output.sections[k].relocations) :
                              output.sections[k].relocations[x].virtual_address # P
                in_group == /\ d # 0
                            /\ group_name(graph.sects[graph.defs[d].target].name)
                                  = sections[k].name
            IN graph.rels[r].source = n
               => /\ omitted <=> in_group
                  /\ omitted =>
                        from_le_bytes(SubSeq(output.sections[k].data, P + 1, P + 4))
                           = wrapping_add(from_le_bytes(A),
                                          wrapping_sub(u32(S), u32(P + 4)))

\* C24: in every state of the graph there is at most one symbol node of
\* external scope per name, the import symbols that the thunks add
\* included, and symbols of local scope are not merged: a local node is not
\* reachable by name and carries at most one definition.
C24_OneExternalPerName ==
    /\ \A s, t \in 1..Len(graph.syms) :
          (/\ sym_is_global(graph.syms[s])
           /\ sym_is_global(graph.syms[t])
           /\ graph.syms[s].name = graph.syms[t].name) => s = t
    /\ \A s \in 1..Len(graph.syms) :
          ~sym_is_global(graph.syms[s]) =>
             /\ s \notin Range(graph.external_symbols)
             /\ Len(definitions(graph, s)) <= 1

\* C25: add_coff with a (file path, member path) pair that is already in the
\* graph, and a matching architecture, returns Ok and leaves the graph as
\* it is.  The command line objects give the graph that their paths, each
\* taken once, give; and a turn of the symbol loop that finds its name in an
\* archive member that is already in the graph resolves the name and
\* changes no node and no edge.
C25_AddCoffIdempotent ==
    [][ /\ (Setup /\ pc' = "resolve") =>
            LET inputs == world.inputs
                once == { i \in 1..Len(inputs) :
                            \A j \in 1..(i - 1) : inputs[j].path # inputs[i].path }
                distinct == [k \in 1..Cardinality(once) |->
                               inputs[CHOOSE i \in once :
                                         Cardinality({j \in once : j < i}) = k - 1]]
            IN /\ setup_errors' = <<>>
               /\ Len(graph'.coff_nodes) = Cardinality(once)
               /\ graph' = add_inputs([g |-> LinkGraph_new(world.target_arch),
                                       errors |-> <<>>], distinct, 1).g
        /\ (/\ ResolveSymbol
            /\ last'.api = "NotFound"
            /\ last'.probes # <<>>
            /\ last'.probes[Len(last'.probes)].outcome = "Coff"
            /\ \A i \in 1..(Len(last'.probes) - 1) : last'.probes[i].outcome = "NotFound")
           => LET library_path == last'.probes[Len(last'.probes)].library
                  x == extract_symbol(world.archives[library_path],
                                      archives[library_path], last'.symbol)
                  member == world.archives[library_path].members[x.member]
              IN <<library_path, member.path>> \in Range(graph.coff_nodes)
                 => /\ last'.resolved
                    /\ graph' = graph
      ]_vars

C25_Witness ==
    /\ world.inputs[1].coff = Referrer("Amd64", <<"f", "g">>)
    /\ world.archives["lib1"] = ArchiveOf("coff", "Amd64")
    /\ last.symbol = "g"
    /\ last.probes = << [library |-> "lib1", outcome |-> "Coff"] >>
    /\ Cardinality({ i \in 1..Len(graph.coff_nodes) :
                        graph.coff_nodes[i] = <<"lib1", "m1.o">> }) = 1

\* C26: every lookup the symbol loop makes in the symbol map of an archive
\* returns the member offset of the first entry of the name in the map, or
\* None (0) when the map does not list the name, whatever lookups were made
\* in that archive before and also when the map lists a name more than
\* once: the answer of a linear scan from the start of the map.
C26_FirstEntryOfName ==
    [][ (ResolveSymbol /\ last'.api # "Ok") =>
          \A i \in 1..Len(last'.probes) :
             LET library_path == last'.probes[i].library
                 symbols == world.archives[library_path].symbols
                 hits == { k \in 1..Len(symbols) : symbols[k].name = last'.symbol }
                 first == IF hits = {} THEN 0
                          ELSE symbols[CHOOSE k \in hits : \A j \in hits : k <= j].offset
                 r == find_symbol(archives[library_path], symbols, last'.symbol)
             IN /\ archives'[library_path] = r.map
                /\ r.found = first
                /\ (last'.probes[i].outcome = "NotFound") <=> (first = 0)
      ]_vars

\* C27: layout places the kept members of every output section in list
\* order.  The first member is at 0 rounded up to its alignment, each next
\* one at the end of its predecessor rounded up to its own alignment, so
\* the byte ranges do not overlap; size_of_raw_data is the end of the last
\* member; when a member has an alignment, the alignment field of the
\* header is log2 of the largest one plus 1.  A virtual address is assigned
\* once: only the layout step changes one, and a member stands once in one
\* list.
C27_LayoutInListOrder ==
    [][ /\ (\E n \in DOMAIN graph.sects :
               graph'.sects[n].virtual_address # graph.sects[n].virtual_address)
           => Layout
        /\ Layout =>
           /\ sections' = [k \in 1..Len(sections') |->
                             [sections'[k] EXCEPT !.nodes =
                                 SelectSeq(sections'[k].nodes,
                                           LAMBDA n : ~graph.sects[n].discarded)]]
           /\ \A k, l \in 1..Len(sections') :
              \A i \in 1..Len(sections'[k].nodes) :
              \A j \in 1..Len(sections'[l].nodes) :
                 sections'[k].nodes[i] = sections'[l].nodes[j] => (k = l /\ i = j)
           /\ \A k \in 1..Len(sections') :
              LET nodes == sections'[k].nodes
                  va(i) == graph'.sects[nodes[i]].virtual_address
                  len(i) == data_len(graph.sects[nodes[i]].data)
                  align(i) == alignment(graph.sects[nodes[i]].characteristics)
                  up(n, a) == IF a = 0 THEN n
                              ELSE CHOOSE m \in n..(n + a - 1) : m % a = 0
                  aligns == { align(i) : i \in 1..Len(nodes) } \ {0}
              IN /\ nodes # <<>>
                 /\ va(1) = up(0, align(1))
                 /\ \A i \in 2..Len(nodes) :
                       va(i) = up(va(i - 1) + len(i - 1), align(i))
                 /\ \A i, j \in 1..Len(nodes) :
                       i < j => va(i) + len(i) <= va(j)
                 /\ sections'[k].header.size_of_raw_data
                       = va(Len(nodes)) + len(Len(nodes))
                 /\ aligns # {} =>
                       \E a \in aligns :
                          /\ \A b \in aligns : b <= a
                          /\ Pow2(sections'[k].header.characteristics.align - 1) = a
      ]_vars

C27_Witness ==
    /\ pc = "reserve_relocations"
    /\ \E k \in 1..Len(sections) :
       \E i \in 2..Len(sections[k].nodes) :
          LET before == sections[k].nodes[i - 1]
              node == sections[k].nodes[i]
          IN /\ graph.sects[node].virtual_address
                   > graph.sects[before].virtual_address
                     + data_len(graph.sects[before].data)
             /\ alignment(graph.sects[node].characteristics)
                   > alignment(graph.sects[before].characteristics)
             /\ sections[k].header.characteristics.align
                   = graph.sects[node].characteristics.align

\* C28: for every graph that finish accepts, the reservation of the symbol
\* table reaches each symbol once, by one definition in a surviving section
\* or by one import edge, so that the assign-once check of the table index
\* never fails and BuiltLinkGraph::link does not stop on it.
C28_TableIndexAssignedOnce ==
    /\ result.kind = "Panic" =>
          \A i \in 1..Len(result.errors) :
             result.errors[i].kind # "AlreadyAssigned"
    /\ pc \in {"write", "fixup"} \/ (pc = "done" /\ result.kind = "Ok") =>
          \A s \in 1..Len(graph.syms) :
             Cardinality({ d \in Range(definitions(graph, s)) :
                             /\ ~graph.sects[graph.defs[d].target].discarded
                             /\ \E k \in 1..Len(sections) :
                                   graph.defs[d].target \in Range(sections[k].nodes) })
             + Len(imports(graph, s)) <= 1

\* C29: throughout the resolution and at finish no external symbol has both
\* a definition edge and an import edge; a name of the snapshot that is no
\* longer undefined when the symbol loop takes it from the buffer gets no
\* import edge and adds no archive member: that turn leaves the graph as it
\* is.
C29_DefinedOrImported ==
    /\ [](pc \in {"resolve", "symbol", "finish"} =>
            \A i \in 1..Len(graph.external_symbols) :
               \/ is_empty(graph.syms[graph.external_symbols[i]].definition_edges)
               \/ is_empty(graph.syms[graph.external_symbols[i]].import_edges))
    /\ [][ (/\ ResolveSymbol
            /\ external_get(graph, Head(symbol_search_buffer)) # 0
            /\ ~is_undefined(graph, external_get(graph, Head(symbol_search_buffer))))
           => graph' = graph
         ]_vars

\* C30: in every state of the graph every edge list is well formed: the
\* walk from its head ends, meets as many edges as len() says, mentions no
\* edge twice and ends at the tail, the list is empty exactly when it has no
\* head and no tail, and every edge met belongs to the node that owns the
\* list.
C30_EdgeListsWellFormed ==
    LET wf(E, L, nx) ==
            /\ IterTerminates(E, L, nx)
            /\ Len(iter(E, L, nx)) = L.size
            /\ (L.head = 0) <=> (L.tail = 0)
            /\ (L.head = 0) <=> (L.size = 0)
            /\ L.head # 0 => iter(E, L, nx)[Len(iter(E, L, nx))] = L.tail
        owned(E, L, nx, end, node) ==
            \A e \in Range(iter(E, L, nx)) : E[e][end] = node
    IN /\ \A s \in 1..Len(graph.syms) :
          /\ wf(graph.defs, graph.syms[s].definition_edges, "next_outgoing")
          /\ owned(graph.defs, graph.syms[s].definition_edges, "next_outgoing",
                   "source", s)
          /\ wf(graph.imps, graph.syms[s].import_edges, "next_outgoing")
          /\ owned(graph.imps, graph.syms[s].import_edges, "next_outgoing",
                   "source", s)
          /\ wf(graph.rels, graph.syms[s].relocation_edges, "next_incoming")
          /\ owned(graph.rels, graph.syms[s].relocation_edges, "next_incoming",
                   "target", s)
       /\ \A n \in 1..Len(graph.sects) :
          /\ wf(graph.defs, graph.sects[n].definition_edges, "next_incoming")
          /\ owned(graph.defs, graph.sects[n].definition_edges, "next_incoming",
                   "target", n)
          /\ wf(graph.rels, graph.sects[n].relocation_edges, "next_outgoing")
          /\ owned(graph.rels, graph.sects[n].relocation_edges, "next_outgoing",
                   "source", n)
          /\ wf(graph.assocs, graph.sects[n].associative_edges, "next_outgoing")
          /\ owned(graph.assocs, graph.sects[n].associative_edges,
                   "next_outgoing", "source", n)
       /\ \A l \in 1..Len(graph.libs) :
          /\ wf(graph.imps, graph.libs[l].import_edges, "next_incoming")
          /\ owned(graph.imps, graph.libs[l].import_edges, "next_incoming",
                   "target", l)

====
